---- MODULE Spec2Model ----
(***************************************************************************)
(* A model of the IP-API backend: the persistent, memory-bounded TTL cache *)
(* (backend/src/utils/kv_store.rs, ip_cache.rs) and the lookup handler     *)
(* built on it (backend/src/api/ip_api.rs, maxmind/reader.rs).             *)
(*                                                                         *)
(* Time is one clock `now` in epoch seconds; SystemTime::now() and         *)
(* Instant::now() both read it.  usize is 64 bits wide and every sum below *)
(* stays under 2^31, so no arithmetic here can wrap.                       *)
(*                                                                         *)
(* Option<T> is a sequence of length 0 (None) or 1 (Some).                 *)
(***************************************************************************)
EXTENDS Integers, Sequences, FiniteSets, TLC

(***************************************************************************)
(* Program constants (kv_store.rs)                                         *)
(***************************************************************************)
MAX_MEMORY_BYTES == 1024 * 1024 * 1024
PERSIST_INTERVAL == 60 * 10
EXPIRY_DURATION == 60 * 60 * 24
\* the per-entry overhead added by estimate_size
overhead == 64
\* bincode writes a String as a u64 length followed by its bytes
BINCODE_LEN_PREFIX == 8

(***************************************************************************)
(* Bounds of the model                                                     *)
(***************************************************************************)
\* how many times the clock may advance
MaxTicks == 3
\* how many times the process may be restarted
MaxRestarts == 1

None == <<>>
Some(x) == <<x>>

(***************************************************************************)
(* Keys and values.  A key is an address in dotted form, kept as its       *)
(* octets.  The store is generic in its value: all it does with a value is *)
(* clone it and take its serialized length, so a value of the store's own  *)
(* operations is an opaque record with that length: a small one, and one   *)
(* that fills the capacity (to the byte under the longer key, one byte     *)
(* less under the shorter).                                                *)
(***************************************************************************)
Keys == {<<8, 8, 8, 8>>, <<10, 0, 0, 5>>}
Vals == {[id |-> "A", bytes |-> 100], [id |-> "C", bytes |-> 1073741744]}

NoFile == [kind |-> "nofile"]
\* the bytes of a file whose write did not complete
Partial == [kind |-> "partial"]
\* a complete snapshot left at the temporary path by a persist_to_disk that
\* did not get to rename it: nothing reads it, the next open truncates it
Stale == [kind |-> "stale"]

\* number of decimal digits of an octet, as Display writes it
DecLen(n) == IF n < 10 THEN 1 ELSE IF n < 100 THEN 2 ELSE 3

\* length of the string of an address: dotted decimal (with /n for a
\* prefix), or the eight segments of an IPv6 address written out in full,
\* each with its hexadecimal digits
RECURSIVE StrLen(_)
StrLen(ip) ==
    LET HexLen(n) == IF n < 16 THEN 1 ELSE IF n < 256 THEN 2
                     ELSE IF n < 4096 THEN 3 ELSE 4
    IN
    IF Len(ip) = 8
    THEN HexLen(ip[1]) + HexLen(ip[2]) + HexLen(ip[3]) + HexLen(ip[4])
         + HexLen(ip[5]) + HexLen(ip[6]) + HexLen(ip[7]) + HexLen(ip[8]) + 7
    ELSE IF Len(ip) = 1 THEN DecLen(Head(ip))
    ELSE DecLen(Head(ip)) + 1 + StrLen(Tail(ip))

\* bincode::serialize(key).len() for a String key
KeyBytes(k) == BINCODE_LEN_PREFIX + StrLen(k)

\* bincode::serialize of an IpInfo: the strings with their length prefix,
\* a byte for each Option, the sub-records at a nominal size
\* (bincode::serialize(value).len()); a value that is no IpInfo carries
\* its length
ValueBytes(v) ==
    IF "bytes" \in DOMAIN v THEN v.bytes
    ELSE KeyBytes(v.ip) + 6 + 2 * BINCODE_LEN_PREFIX
         + 512 * (Len(v.whois_info) + Len(v.bgp_info))
         + 64 * (Len(v.bgp_api_info) + Len(v.rpki_info_list))

estimate_size(k, v) == KeyBytes(k) + ValueBytes(v) + overhead

(***************************************************************************)
(* Paths (main.rs:45, kv_store.rs:248)                                     *)
(***************************************************************************)
file_path == [stem |-> "data/ip_cache", ext |-> "bin"]
with_extension(p, e) == [p EXCEPT !.ext = e]
\* a persist that writes the snapshot in place
temp_path_in_place == file_path
temp_path == with_extension(file_path, "tmp")

VARIABLES
    entries,            \* KvStore.entries: key -> [value, expires_at, size_bytes]
    current_size_bytes, \* KvStore.current_size_bytes
    last_persist,       \* KvStore.last_persist
    now,                \* the clock, epoch seconds
    files,              \* the file system: path -> NoFile, Partial, Stale or a snapshot
    phase,              \* "new" after construction, "running" after start_tasks
    ppc,                \* position inside persist_to_disk
    caller,             \* who called persist_to_disk: "none", "set", "loop"
    ret,                \* the last store operation and what it returned
    restarts,           \* restarts so far
    hist,               \* history: key -> the value of its latest set and the
                        \* time of that set, while that set is still in force
    rq,                 \* the lookup requests: request -> its position in
                        \* get_ip_info and its locals
    lk,                 \* the RwLock of the store: the writer inside and the
                        \* readers inside, for the callers that are
                        \* modelled step by step
    reader,                \* the MaxmindReader under its RwLock, the database
                        \* files and the update tasks
    sched               \* the Scheduler: its clock, the anchor last_run and
                        \* the end of the sleep of its loop

storeVars == <<entries, current_size_bytes, last_persist, now, files, phase,
               ppc, caller, ret, restarts, hist>>

apiVars == <<rq, lk, reader, sched>>

vars == <<storeVars, apiVars>>

EmptyMap == <<>>

Entry(v, e, s) == [value |-> v, expires_at |-> e, size_bytes |-> s]

\* HashMap::insert that leaves an existing entry in place
InsertIfAbsent(m, k, e) ==
    [x \in (DOMAIN m) \cup {k} |-> IF x \in DOMAIN m THEN m[x] ELSE e]

\* m with key k bound to e (HashMap::insert)
Insert(m, k, e) == [x \in (DOMAIN m) \cup {k} |-> IF x = k THEN e ELSE m[x]]

\* m without key k (HashMap::remove)
Without(m, k) == [x \in (DOMAIN m) \ {k} |-> m[x]]

RECURSIVE SumSizes(_)
SumSizes(m) ==
    IF DOMAIN m = {} THEN 0
    ELSE LET k == CHOOSE x \in DOMAIN m : TRUE
         IN m[k].size_bytes + SumSizes(Without(m, k))

\* The instants at which the clock is read: 0, one persist interval later,
\* one TTL after 0, one persist interval later, ...  so that a persist
\* interval and a deadline are each met exactly, undershot and overshot.
NextInstant(t) ==
    IF t % EXPIRY_DURATION = 0
    THEN t + PERSIST_INTERVAL
    ELSE t + (EXPIRY_DURATION - PERSIST_INTERVAL)

\* number of clock advances that led to time t
TicksOf(t) ==
    2 * (t \div EXPIRY_DURATION) + (IF t % EXPIRY_DURATION = 0 THEN 0 ELSE 1)

NoRet == [op |-> "none"]

\* no set of the key is in force
NoHist == [value |-> None, at |-> 0]

(***************************************************************************)
(* KvStore::new: the state after construction                              *)
(***************************************************************************)
InitStore ==
    /\ entries = EmptyMap
    /\ current_size_bytes = 0
    /\ last_persist = 0
    /\ now = 0
    /\ files = [p \in {file_path, with_extension(file_path, "tmp")} |-> NoFile]
    /\ phase = "new"
    /\ ppc = "idle"
    /\ caller = "none"
    /\ ret = NoRet
    /\ restarts = 0
    /\ hist = [k \in Keys |-> NoHist]


\* a store that is used before start_background_tasks has run
IdleAnyPhase == ppc = "idle"

\* the lock of the store is free and the store is in service
Idle == phase = "running" /\ ppc = "idle"

(***************************************************************************)
(* KvStore::get, contains_key, len, memory_usage                           *)
(***************************************************************************)
\* a get that takes the deadline itself as still live
get_inclusive(k) ==
    IF k \in DOMAIN entries /\ entries[k].expires_at >= now
    THEN Some(entries[k].value)
    ELSE None

get(k) ==
    IF k \in DOMAIN entries /\ entries[k].expires_at > now
    THEN Some(entries[k].value)
    ELSE None

contains_key(k) ==
    IF k \in DOMAIN entries THEN entries[k].expires_at > now ELSE FALSE

\* a len that counts the live entries only
len_live == Cardinality({k \in DOMAIN entries : entries[k].expires_at > now})

len == Cardinality(DOMAIN entries)

memory_usage == current_size_bytes

\* a get that renews the deadline of the entry it returns
kv_get_renewing(k) ==
    /\ Idle
    /\ ret' = [op |-> "get", key |-> k, res |-> get(k)]
    /\ entries' = IF get(k) # None
                  THEN [entries EXCEPT ![k].expires_at = now + EXPIRY_DURATION]
                  ELSE entries
    /\ UNCHANGED <<current_size_bytes, last_persist, now, files, phase, ppc,
                   caller, restarts, hist>>

\* IpCache::get: the read lock, then KvStore::get
kv_get(k) ==
    /\ Idle
    /\ ret' = [op |-> "get", key |-> k, res |-> get(k)]
    /\ UNCHANGED <<entries, current_size_bytes, last_persist, now, files,
                   phase, ppc, caller, restarts, hist>>

\* IpCache::contains
kv_contains(k) ==
    /\ Idle
    /\ ret' = [op |-> "contains", key |-> k, res |-> contains_key(k)]
    /\ UNCHANGED <<entries, current_size_bytes, last_persist, now, files,
                   phase, ppc, caller, restarts, hist>>

\* IpCache::stats (memory_usage_mb is memory_usage scaled to MiB)
kv_stats ==
    /\ Idle
    /\ ret' = [op |-> "stats", len |-> len, bytes |-> memory_usage]
    /\ UNCHANGED <<entries, current_size_bytes, last_persist, now, files,
                   phase, ppc, caller, restarts, hist>>

(***************************************************************************)
(* KvStore::set                                                            *)
(***************************************************************************)
\* a set that forgets the size of the entry it replaces
old_size_ignored(k) == 0

old_size(k) == IF k \in DOMAIN entries THEN entries[k].size_bytes ELSE 0

\* a total to which the new entry is added without taking the old one off
new_total_size_appended(k, v) == current_size_bytes + estimate_size(k, v)

new_total_size(k, v) == current_size_bytes - old_size(k) + estimate_size(k, v)

\* a capacity check on the size before the set instead of the new total
ExceedsLimitBefore(total) == current_size_bytes > MAX_MEMORY_BYTES

\* the capacity check of set: TRUE when the set is rejected
ExceedsLimit(total) == total > MAX_MEMORY_BYTES

\* the deadline given to an entry set at time t
ExpiresAt(t) == t + EXPIRY_DURATION

\* last_persist.elapsed() >= PERSIST_INTERVAL
PersistDue == now - last_persist >= PERSIST_INTERVAL

\* a set that drops the entry it is about to replace before the capacity check
kv_set_eager(k, v) ==
    /\ Idle
    /\ IF ExceedsLimit(new_total_size(k, v))
       THEN /\ ret' = [op |-> "set", key |-> k, value |-> v, res |-> "err",
                       old |-> old_size(k)]
            /\ entries' = Without(entries, k)
            /\ current_size_bytes' = current_size_bytes - old_size(k)
            /\ UNCHANGED <<ppc, caller, hist>>
       ELSE /\ current_size_bytes' = new_total_size(k, v)
            /\ entries' = Insert(entries, k,
                                 Entry(v, ExpiresAt(now), estimate_size(k, v)))
            /\ ret' = [op |-> "set", key |-> k, value |-> v, res |-> "ok",
                       old |-> old_size(k)]
            /\ hist' = [hist EXCEPT ![k] = [value |-> Some(v), at |-> now]]
            /\ IF PersistDue
               THEN ppc' = "begin" /\ caller' = "set"
               ELSE UNCHANGED <<ppc, caller>>
    /\ UNCHANGED <<last_persist, now, files, phase, restarts>>

\* IpCache::set: the write lock, then KvStore::set up to its inline persist
kv_set(k, v) ==
    /\ Idle
    /\ IF ExceedsLimit(new_total_size(k, v))
       THEN /\ ret' = [op |-> "set", key |-> k, value |-> v, res |-> "err",
                       old |-> old_size(k)]
            /\ UNCHANGED <<entries, current_size_bytes, ppc, caller, hist>>
       ELSE /\ current_size_bytes' = new_total_size(k, v)
            /\ entries' = Insert(entries, k,
                                 Entry(v, ExpiresAt(now), estimate_size(k, v)))
            /\ ret' = [op |-> "set", key |-> k, value |-> v, res |-> "ok",
                       old |-> old_size(k)]
            /\ hist' = [hist EXCEPT ![k] = [value |-> Some(v), at |-> now]]
            /\ IF PersistDue
               THEN ppc' = "begin" /\ caller' = "set"
               ELSE UNCHANGED <<ppc, caller>>
    /\ UNCHANGED <<last_persist, now, files, phase, restarts>>

(***************************************************************************)
(* KvStore::remove                                                         *)
(***************************************************************************)
\* a remove that leaves an expired entry where it is
kv_remove_unexpired(k) ==
    /\ Idle
    /\ IF k \in DOMAIN entries /\ entries[k].expires_at > now
       THEN /\ entries' = Without(entries, k)
            /\ current_size_bytes' = current_size_bytes - entries[k].size_bytes
            /\ ret' = [op |-> "remove", key |-> k, res |-> Some(entries[k].value)]
       ELSE /\ ret' = [op |-> "remove", key |-> k, res |-> None]
            /\ UNCHANGED <<entries, current_size_bytes>>
    /\ hist' = [hist EXCEPT ![k] = NoHist]
    /\ UNCHANGED <<last_persist, now, files, phase, ppc, caller, restarts>>

\* IpCache::remove
kv_remove(k) ==
    /\ Idle
    /\ IF k \in DOMAIN entries
       THEN /\ entries' = Without(entries, k)
            /\ current_size_bytes' = current_size_bytes - entries[k].size_bytes
            /\ ret' = [op |-> "remove", key |-> k, res |-> Some(entries[k].value)]
       ELSE /\ ret' = [op |-> "remove", key |-> k, res |-> None]
            /\ UNCHANGED <<entries, current_size_bytes>>
    /\ hist' = [hist EXCEPT ![k] = NoHist]
    /\ UNCHANGED <<last_persist, now, files, phase, ppc, caller, restarts>>

(***************************************************************************)
(* KvStore::cleanup_expired, called by the sweep loop                      *)
(***************************************************************************)
\* a filter that spares the entry whose deadline is now
IsExpiredBefore(e, t) == e.expires_at < t

\* the filter of cleanup_expired
IsExpired(e, t) == e.expires_at <= t

expired_keys == {k \in DOMAIN entries : IsExpired(entries[k], now)}

\* the loop over expired_keys: st is [entries, size]
RECURSIVE RemoveEach(_, _)
RemoveEach(st, ks) ==
    IF ks = {} THEN st
    ELSE LET k == CHOOSE x \in ks : TRUE
             nxt == IF k \in DOMAIN st.entries
                    THEN [entries |-> Without(st.entries, k),
                          size |-> st.size - st.entries[k].size_bytes]
                    ELSE st
         IN RemoveEach(nxt, ks \ {k})

\* a sweep that counts the expired entries and removes none
kv_cleanup_counting ==
    /\ Idle
    /\ ret' = [op |-> "sweep", count |-> Cardinality(expired_keys)]
    /\ UNCHANGED <<entries, current_size_bytes, last_persist, now, files,
                   phase, ppc, caller, restarts, hist>>

\* one tick of the sweep loop: the write lock, then cleanup_expired
kv_cleanup ==
    /\ Idle
    /\ LET st == RemoveEach([entries |-> entries, size |-> current_size_bytes],
                            expired_keys)
       IN /\ entries' = st.entries
          /\ current_size_bytes' = st.size
    /\ ret' = [op |-> "sweep", count |-> Cardinality(expired_keys)]
    /\ UNCHANGED <<last_persist, now, files, phase, ppc, caller, restarts, hist>>

(***************************************************************************)
(* KvStore::persist_to_disk, one action per step; the caller holds the     *)
(* write lock from "begin" until the return                                *)
(***************************************************************************)
\* StoreData; created_at is written and never read, and is left out
store_data == [kind |-> "snapshot", entries |-> entries]

\* std::fs::rename(from, to)
rename(fs, from, to) ==
    IF from = to THEN fs
    ELSE [p \in DOMAIN fs |->
            IF p = to THEN fs[from] ELSE IF p = from THEN NoFile ELSE fs[p]]

\* what the files hold once persist_to_disk is abandoned at step pc
Abandoned(fs, pc) ==
    IF pc = "write" THEN [fs EXCEPT ![temp_path] = Partial]
    ELSE IF pc \in {"flush", "rename"} THEN [fs EXCEPT ![temp_path] = Stale]
    ELSE fs

\* the return of persist_to_disk to its caller: persist_to_disk itself
\* restarts the interval on success (line 266), set() restarts it whatever
\* the result (line 165), the persist loop only logs; since is the start
\* of the interval that was running when persist_to_disk was called
PersistReturn(res) ==
    /\ ppc' = "idle"
    /\ caller' = "none"
    /\ last_persist' = IF caller = "set" \/ res = "ok" THEN now ELSE last_persist
    /\ ret' = [op |-> "persist", by |-> caller, res |-> res,
               since |-> last_persist]

\* one tick of the persist loop: the write lock, then persist_to_disk
kv_persist_tick ==
    /\ Idle
    /\ ppc' = "begin"
    /\ caller' = "loop"
    /\ ret' = NoRet
    /\ UNCHANGED <<entries, current_size_bytes, last_persist, now, files,
                   phase, restarts, hist>>

\* StoreData built, bincode::serialize, create_dir_all
PersistPrepare ==
    /\ ppc = "begin"
    /\ ppc' = "open"
    /\ UNCHANGED <<entries, current_size_bytes, last_persist, now, files,
                   phase, caller, ret, restarts, hist>>
    /\ UNCHANGED apiVars

\* OpenOptions::open with create and truncate
PersistOpen ==
    /\ ppc = "open"
    /\ ppc' = "write"
    /\ files' = [files EXCEPT ![temp_path] = Partial]
    /\ UNCHANGED <<entries, current_size_bytes, last_persist, now, phase,
                   caller, ret, restarts, hist>>
    /\ UNCHANGED apiVars

\* write_all
PersistWrite ==
    /\ ppc = "write"
    /\ ppc' = "flush"
    /\ files' = [files EXCEPT ![temp_path] = store_data]
    /\ UNCHANGED <<entries, current_size_bytes, last_persist, now, phase,
                   caller, ret, restarts, hist>>
    /\ UNCHANGED apiVars

\* flush
PersistFlush ==
    /\ ppc = "flush"
    /\ ppc' = "rename"
    /\ UNCHANGED <<entries, current_size_bytes, last_persist, now, files,
                   phase, caller, ret, restarts, hist>>
    /\ UNCHANGED apiVars

\* rename, last_persist = now, Ok
PersistRename ==
    /\ ppc = "rename"
    /\ files' = rename(files, temp_path, file_path)
    /\ PersistReturn("ok")
    /\ UNCHANGED <<entries, current_size_bytes, now, phase, restarts, hist>>
    /\ UNCHANGED apiVars

\* any step returns Err; a write_all that fails leaves part of the bytes
PersistFail ==
    /\ ppc \in {"begin", "open", "write", "flush", "rename"}
    /\ files' = Abandoned(files, ppc)
    /\ PersistReturn("err")
    /\ UNCHANGED <<entries, current_size_bytes, now, phase, restarts, hist>>
    /\ UNCHANGED apiVars

(***************************************************************************)
(* KvStore::start_background_tasks: load_from_disk, then the two loops     *)
(***************************************************************************)
\* a load that keeps every entry of the snapshot
IsLiveAlways(e, t) == TRUE

\* the filter of load_from_disk
IsLive(e, t) == e.expires_at > t

\* the loop over the snapshot's entries: st is [entries, size]
RECURSIVE LoadEach(_, _, _)
LoadEach(st, snap, ks) ==
    IF ks = {} THEN st
    ELSE LET k == CHOOSE x \in ks : TRUE
             nxt == IF IsLive(snap[k], now)
                    THEN [entries |-> Insert(st.entries, k, snap[k]),
                          size |-> st.size + snap[k].size_bytes]
                    ELSE st
         IN LoadEach(nxt, snap, ks \ {k})

\* bincode::deserialize of the bytes of a file
Deserializes(f) == f.kind = "snapshot"

\* a load that keeps what is in memory
Kept(st) == st

\* entries.clear(), current_size_bytes = 0
Cleared(st) == [entries |-> EmptyMap, size |-> 0]

\* a load that clears the store before it reads the file
load_from_disk_clearing_first(io) ==
    IF files[file_path] = NoFile
    THEN /\ ret' = [op |-> "load", res |-> "ok", file |-> FALSE]
         /\ UNCHANGED <<entries, current_size_bytes>>
    ELSE IF ~io
    THEN /\ ret' = [op |-> "load", res |-> "io error", file |-> TRUE]
         /\ entries' = EmptyMap
         /\ current_size_bytes' = 0
    ELSE IF ~Deserializes(files[file_path])
    THEN /\ ret' = [op |-> "load", res |-> "corrupt", file |-> TRUE]
         /\ entries' = EmptyMap
         /\ current_size_bytes' = 0
    ELSE LET snap == files[file_path].entries
             st == LoadEach([entries |-> EmptyMap, size |-> 0], snap, DOMAIN snap)
         IN /\ entries' = st.entries
            /\ current_size_bytes' = st.size
            /\ ret' = [op |-> "load", res |-> "ok", file |-> TRUE]

\* io is FALSE when File::open or read_to_end fails
load_from_disk(io) ==
    IF files[file_path] = NoFile
    THEN /\ ret' = [op |-> "load", res |-> "ok", file |-> FALSE]
         /\ UNCHANGED <<entries, current_size_bytes>>
    ELSE IF ~io
    THEN /\ ret' = [op |-> "load", res |-> "io error", file |-> TRUE]
         /\ UNCHANGED <<entries, current_size_bytes>>
    ELSE IF ~Deserializes(files[file_path])
    THEN /\ ret' = [op |-> "load", res |-> "corrupt", file |-> TRUE]
         /\ UNCHANGED <<entries, current_size_bytes>>
    ELSE LET snap == files[file_path].entries
             st == LoadEach(Cleared([entries |-> entries,
                                     size |-> current_size_bytes]),
                            snap, DOMAIN snap)
         IN /\ entries' = st.entries
            /\ current_size_bytes' = st.size
            /\ ret' = [op |-> "load", res |-> "ok", file |-> TRUE]

\* the load result is logged, the loops are spawned, the store is in service
StartBackgroundTasks ==
    /\ phase = "new"
    /\ \E io \in BOOLEAN : load_from_disk(io)
    /\ phase' = "running"
    /\ UNCHANGED <<last_persist, now, files, ppc, caller, restarts, hist>>
    /\ UNCHANGED apiVars

(***************************************************************************)
(* The environment: the clock advances; the process exits (at any point,   *)
(* inside persist_to_disk too) and is started again                        *)
(***************************************************************************)
Tick ==
    /\ ppc = "idle"
    /\ TicksOf(now) < MaxTicks
    /\ now' = NextInstant(now)
    /\ ret' = NoRet
    /\ hist' = [k \in Keys |->
                  IF hist[k].value # None
                     /\ NextInstant(now) >= hist[k].at + EXPIRY_DURATION
                  THEN NoHist ELSE hist[k]]
    /\ UNCHANGED <<entries, current_size_bytes, last_persist, files, phase,
                   ppc, caller, restarts>>
    /\ UNCHANGED apiVars

\* the process ends and main runs again up to IpCache::new
Restart ==
    /\ restarts < MaxRestarts
    /\ restarts' = restarts + 1
    /\ entries' = EmptyMap
    /\ current_size_bytes' = 0
    /\ last_persist' = now
    /\ phase' = "new"
    /\ ppc' = "idle"
    /\ caller' = "none"
    /\ ret' = NoRet
    /\ hist' = [k \in Keys |-> NoHist]
    /\ files' = Abandoned(files, ppc)
    /\ UNCHANGED now
    /\ UNCHANGED apiVars


\* start_background_tasks called on a store that is in service
\* (IpCache::start_tasks is public): load_from_disk runs on the entries
\* that are in memory.  The history is kept, so that it tells which sets
\* the load has undone.
StartAgain ==
    /\ Idle
    /\ \E io \in BOOLEAN : load_from_disk(io)
    /\ UNCHANGED <<last_persist, now, files, phase, ppc, caller, restarts,
                   hist>>
    /\ UNCHANGED apiVars

\* the snapshot file is damaged outside the program
Corrupt ==
    /\ ppc = "idle"
    /\ files[file_path].kind = "snapshot"
    /\ files' = [files EXCEPT ![file_path] = Partial]
    /\ ret' = NoRet
    /\ UNCHANGED <<entries, current_size_bytes, last_persist, now, phase,
                   ppc, caller, restarts, hist>>
    /\ UNCHANGED apiVars

(***************************************************************************)
(* The lock of the store (SharedStore, kv_store.rs:17): IpCache takes      *)
(* store.read() for get, contains and stats and store.write() for set and  *)
(* remove; the two loops take store.write().  A caller is inside from the  *)
(* moment the lock is granted until the guard is dropped.                  *)
(***************************************************************************)
\* the tasks that read
Readers == {"g1", "g2"}

\* the operations done under the write lock by a running server
WriteOps == {"set", "remove", "sweep", "persist"}

NoLock == [w |-> "none", wdone |-> FALSE, rd |-> [t \in Readers |-> "out"]]

\* RwLock::read is granted
CanRead(l) == l.w = "none"

\* a write lock granted while readers are inside
CanWriteBesideReaders(l) == l.w = "none"

\* RwLock::write is granted
CanWrite(l) == l.w = "none" /\ \A t \in Readers : l.rd[t] = "out"

\* store.read().await returns
LockRead(t) ==
    /\ phase = "running"
    /\ lk.rd[t] = "out"
    /\ CanRead(lk)
    /\ lk' = [lk EXCEPT !.rd[t] = "in"]
    /\ UNCHANGED <<storeVars, rq, reader, sched>>

\* IpCache::get under the read lock
ReadGet(t, k) ==
    /\ lk.rd[t] = "in"
    /\ kv_get(k)
    /\ lk' = [lk EXCEPT !.rd[t] = "done"]
    /\ UNCHANGED <<rq, reader, sched>>

\* IpCache::contains under the read lock
ReadContains(t, k) ==
    /\ lk.rd[t] = "in"
    /\ kv_contains(k)
    /\ lk' = [lk EXCEPT !.rd[t] = "done"]
    /\ UNCHANGED <<rq, reader, sched>>

\* IpCache::stats under the read lock
ReadStats(t) ==
    /\ lk.rd[t] = "in"
    /\ kv_stats
    /\ lk' = [lk EXCEPT !.rd[t] = "done"]
    /\ UNCHANGED <<rq, reader, sched>>

\* the read guard is dropped
UnlockRead(t) ==
    /\ lk.rd[t] = "done"
    /\ lk' = [lk EXCEPT !.rd[t] = "out"]
    /\ UNCHANGED <<storeVars, rq, reader, sched>>

\* store.write().await returns to a caller that is about to do op
LockWrite(op) ==
    /\ phase = "running"
    /\ CanWrite(lk)
    /\ lk' = [lk EXCEPT !.w = op, !.wdone = FALSE]
    /\ UNCHANGED <<storeVars, rq, reader, sched>>

\* IpCache::set under the write lock
WriteSet(k, v) ==
    /\ lk.w = "set" /\ ~lk.wdone
    /\ kv_set(k, v)
    /\ lk' = [lk EXCEPT !.wdone = TRUE]
    /\ UNCHANGED <<rq, reader, sched>>

\* IpCache::remove under the write lock
WriteRemove(k) ==
    /\ lk.w = "remove" /\ ~lk.wdone
    /\ kv_remove(k)
    /\ lk' = [lk EXCEPT !.wdone = TRUE]
    /\ UNCHANGED <<rq, reader, sched>>

\* the sweep loop under the write lock
WriteSweep ==
    /\ lk.w = "sweep" /\ ~lk.wdone
    /\ kv_cleanup
    /\ lk' = [lk EXCEPT !.wdone = TRUE]
    /\ UNCHANGED <<rq, reader, sched>>

\* the persist loop under the write lock
WritePersist ==
    /\ lk.w = "persist" /\ ~lk.wdone
    /\ kv_persist_tick
    /\ lk' = [lk EXCEPT !.wdone = TRUE]
    /\ UNCHANGED <<rq, reader, sched>>

\* the write guard is dropped, once the operation has returned
UnlockWrite ==
    /\ lk.w # "none" /\ lk.wdone
    /\ ppc = "idle"
    /\ lk' = [lk EXCEPT !.w = "none", !.wdone = FALSE]
    /\ UNCHANGED <<storeVars, rq, reader, sched>>

(***************************************************************************)
(* maxmind/reader.rs: is_reserved_ip and MaxmindReader::lookup             *)
(* An input string is a tuple of numbers: a.b.c.d is <<a, b, c, d>>,       *)
(* a.b.c.d/n is <<a, b, c, d, n>> and the IPv6 address s1:s2:...:s8 is the *)
(* tuple of its eight segments.                                            *)
(***************************************************************************)
\* the marker string of lines 85 and 88 (its text is Chinese for
\* "reserved address")
RESERVED_MARKER == "reserved"

\* IpAddr::from_str(s).is_ok()
ParsesAsIp(s) ==
    \/ Len(s) = 4 /\ \A i \in 1..4 : s[i] <= 255
    \/ Len(s) = 8 /\ \A i \in 1..8 : s[i] <= 65535

\* IpNet::from_str(s).is_ok()
ParsesAsNet(s) ==
    Len(s) = 5 /\ (\A i \in 1..4 : s[i] <= 255) /\ s[5] <= 32

\* s.contains('/')
ContainsSlash(s) == Len(s) = 5

\* lines 40-46: Ipv4Addr::is_loopback, is_private, is_link_local,
\* is_broadcast, is_documentation, and the test of 0.0.0.0/8
is_reserved_v4(ip) ==
    \/ ip[1] = 127
    \/ ip[1] = 10
    \/ ip[1] = 172 /\ ip[2] \in 16..31
    \/ ip[1] = 192 /\ ip[2] = 168
    \/ ip[1] = 169 /\ ip[2] = 254
    \/ \A i \in 1..4 : ip[i] = 255
    \/ ip[1] = 192 /\ ip[2] = 0 /\ ip[3] = 2
    \/ ip[1] = 198 /\ ip[2] = 51 /\ ip[3] = 100
    \/ ip[1] = 203 /\ ip[2] = 0 /\ ip[3] = 113
    \/ ip[1] = 0

\* lines 49-53: Ipv6Addr::is_loopback (::1), is_unspecified (::),
\* is_unique_local (fc00::/7), is_multicast (ff00::/8) and
\* is_unicast_link_local (fe80::/10)
is_reserved_v6(ip) ==
    \/ (\A i \in 1..7 : ip[i] = 0) /\ ip[8] = 1
    \/ \A i \in 1..8 : ip[i] = 0
    \/ ip[1] \in 64512..65023
    \/ ip[1] \in 65280..65535
    \/ ip[1] \in 65152..65215

\* is_reserved_ip: a string that is no address is not reserved
is_reserved_ip(ip) ==
    /\ ParsesAsIp(ip)
    /\ IF Len(ip) = 4 THEN is_reserved_v4(ip) ELSE is_reserved_v6(ip)

\* the record lookup returns for a reserved address
ReservedInfo(ip) ==
    [ip |-> ip, ip_range |-> None, country |-> Some(RESERVED_MARKER),
     city |-> None, asn |-> None, organization |-> Some(RESERVED_MARKER),
     whois_info |-> None, bgp_info |-> None, bgp_api_info |-> None,
     rpki_info_list |-> <<>>]

\* what the three databases hold for an address
GeoInfo(ip) ==
    [ip |-> ip, ip_range |-> None, country |-> Some("US"),
     city |-> Some("Mountain View"), asn |-> Some(15169),
     organization |-> Some("GOOGLE"),
     whois_info |-> None, bgp_info |-> None, bgp_api_info |-> None,
     rpki_info_list |-> <<>>]

\* Ok(record): geo tells whether the databases were read, and at is the
\* address they were read for
Ok(info, read) ==
    [ok |-> TRUE, info |-> info, geo |-> read,
     at |-> IF read THEN Some(info.ip) ELSE None]
Err(msg) == [ok |-> FALSE, err |-> msg, geo |-> FALSE]

\* a lookup_ip that reads the databases without parsing the address first
lookup_ip_unparsed(ip) == Ok(GeoInfo(ip), TRUE)

\* lookup_ip: the address is parsed, then the databases are read (their
\* own errors are logged and leave the fields empty); "invalid ip" and
\* "invalid cidr" stand for the messages of lines 105 and 182
lookup_ip(ip) ==
    IF ParsesAsIp(ip) THEN Ok(GeoInfo(ip), TRUE) ELSE Err("invalid ip")

\* the bits of the prefix that fall into octet i
PrefixBits(n, i) ==
    IF n <= 8 * (i - 1) THEN 0
    ELSE IF n >= 8 * i THEN 8 ELSE n - 8 * (i - 1)

\* IpNet::network and IpNet::broadcast
network(net) ==
    [i \in 1..4 |-> net[i] - (net[i] % (2 ^ (8 - PrefixBits(net[5], i))))]
broadcast(net) ==
    [i \in 1..4 |-> network(net)[i] + (2 ^ (8 - PrefixBits(net[5], i))) - 1]

\* IpNet::addr: the address as it is written before the slash
addr(net) == SubSeq(net, 1, 4)

\* lookup_cidr
lookup_cidr(cidr) ==
    IF ~ParsesAsNet(cidr) THEN Err("invalid cidr")
    ELSE LET res == lookup_ip(addr(cidr))
         IN IF ~res.ok THEN res
            ELSE [res EXCEPT
                    !.info = [@ EXCEPT
                        !.ip = cidr,
                        !.ip_range = Some(<<network(cidr), broadcast(cidr)>>)]]

\* MaxmindReader::lookup: Ok with the record, or Err; geo tells whether the
\* databases were read
lookup(ip) ==
    IF is_reserved_ip(ip) THEN Ok(ReservedInfo(ip), FALSE)
    ELSE IF ContainsSlash(ip) THEN lookup_cidr(ip)
    ELSE lookup_ip(ip)

(***************************************************************************)
(* The MaxmindReader behind its RwLock (main.rs:41-42): the handler holds  *)
(* reader.read() from line 122 of ip_api.rs to the end of get_ip_info, an  *)
(* update task takes reader.write() to reload.  tokio's RwLock is fair: a  *)
(* read is not granted while a writer is inside or waiting.                *)
(***************************************************************************)
\* the update tasks that may be alive at a time
Tasks == {"u1", "u2"}

\* main.rs:54-65: the three files are there and loaded, no task is spawned
NoGeo ==
    [loaded |-> [i \in 1..3 |-> 1], disk |-> [i \in 1..3 |-> 1],
     w |-> None, rd |-> {}, task |-> [t \in Tasks |-> "none"]]

\* reader.read().await is granted
CanReadGeo(g) == g.w = None /\ \A t \in Tasks : g.task[t] # "wait"

\* a write lock granted while requests hold the read lock
CanWriteGeoBesideReaders(g) == g.w = None

\* reader.write().await is granted
CanWriteGeo(g) == g.w = None /\ g.rd = {}

\* the read guard of request r, from line 122 on
hold_reader(g, r) == [g EXCEPT !.rd = @ \cup {r}]

\* a read guard that is never dropped
release_reader_never(g, r) == g

\* the read guard of request r is dropped at the end of get_ip_info
release_reader(g, r) == [g EXCEPT !.rd = @ \ {r}]

\* of the three databases (asn, city, country, in the order update()
\* downloads and load_databases() loads them) the first n take the version of src: a run of downloads or
\* of loads that fails at the (n+1)-th ends there (the ? operator)
FirstN(old, src, n) == [i \in 1..3 |-> IF i <= n THEN src[i] ELSE old[i]]

(***************************************************************************)
(* scheduler/mod.rs: one loop per task; each iteration reads the clock,    *)
(* runs the callback if the interval has passed since last_run, and sleeps *)
(***************************************************************************)
\* Duration::days(1), in seconds
DAY == 86400

\* the shortest sleep of the loop: 1000 ms
MIN_SLEEP == 1

\* how many times the clock of the scheduler advances
MaxSchedTicks == 4

\* by how much the clock advances in one step
ClockSteps == {1, DAY - 1, DAY}

\* schedule_daily and start: last_run is the time of construction, the loop
\* starts at once; out is what the latest iteration did ("none" before the
\* first, "skipped" when the task was not due, else the callback's result)
NoSched ==
    [utc |-> 0, last_run |-> 0, wake |-> 0, out |-> "none", ticks |-> 0]

\* line 35
IsDue(s) == s.utc - s.last_run >= DAY

\* an anchor that moves at every run of the callback
next_anchor_always(s, ok) == IF IsDue(s) THEN s.utc ELSE s.last_run

\* lines 35-48: the anchor after the iteration
next_anchor(s, ok) == IF IsDue(s) /\ ok THEN s.utc ELSE s.last_run

\* lines 31-55: one iteration of the loop, ok being what the callback
\* returns if it is run
iterate(s, ok) ==
    [s EXCEPT !.last_run = next_anchor(s, ok),
              !.wake = LET sleep == next_anchor(s, ok) + DAY - s.utc
                       IN s.utc + (IF sleep >= MIN_SLEEP THEN sleep
                                   ELSE MIN_SLEEP),
              !.out = IF ~IsDue(s) THEN "skipped"
                      ELSE IF ok THEN "ok" ELSE "err"]

\* the clock of the scheduler advances
SchedTick(d) ==
    /\ sched.ticks < MaxSchedTicks
    /\ sched' = [sched EXCEPT !.utc = @ + d, !.ticks = @ + 1]
    /\ UNCHANGED <<storeVars, rq, lk, reader>>

\* the sleep is over and the loop runs an iteration with a callback that
\* returns ok
sched_wake(ok) ==
    /\ phase = "running"
    /\ sched.utc >= sched.wake
    /\ sched' = iterate(sched, ok)

(***************************************************************************)
(* main.rs:71-90: the callback registered with the scheduler spawns an     *)
(* update task and returns Ok(()); the task downloads the databases and,   *)
(* if all three downloads succeeded, reloads the reader under write()      *)
(***************************************************************************)
\* a callback that reports what became of the update
maxmind_db_update_failing == FALSE

\* line 89: what the callback returns
maxmind_db_update == TRUE

\* an iteration of the scheduler's loop with the registered callback
SchedRefresh ==
    /\ sched_wake(maxmind_db_update)
    /\ IF IsDue(sched)
       THEN \E t \in Tasks :
               /\ reader.task[t] = "none"
               /\ reader' = [reader EXCEPT !.task[t] = "update"]
       ELSE reader' = reader
    /\ UNCHANGED <<storeVars, rq, lk>>

\* lines 76-81: updater.update() returns, having replaced the first n
\* database files; n = 3 is Ok, and anything less ends the task
UpdateDone(t, n) ==
    /\ reader.task[t] = "update"
    /\ reader' = [reader EXCEPT
                 !.disk = FirstN(@, [i \in 1..3 |-> @[i] + 1], n),
                 !.task[t] = IF n = 3 THEN "wait" ELSE "none"]
    /\ UNCHANGED <<storeVars, rq, lk, sched>>

\* line 83: reader.write().await returns
ReloadLock(t) ==
    /\ reader.task[t] = "wait"
    /\ CanWriteGeo(reader)
    /\ reader' = [reader EXCEPT !.task[t] = "reload", !.w = Some(t)]
    /\ UNCHANGED <<storeVars, rq, lk, sched>>

\* lines 84-87: load_databases has loaded the first n databases (3 is Ok),
\* the guard is dropped and the task ends
ReloadDone(t, n) ==
    /\ reader.task[t] = "reload"
    /\ reader' = [reader EXCEPT !.loaded = FirstN(@, reader.disk, n),
                          !.task[t] = "none", !.w = None]
    /\ UNCHANGED <<storeVars, rq, lk, sched>>
(***************************************************************************)
(* api/ip_api.rs: IpApiHandler::get_ip_info, one action per stretch of     *)
(* code between two suspension points                                      *)
(***************************************************************************)
\* the handler tasks: one request at a time in each
Handlers == {"r1", "r2"}

\* the handler that serves when the requests come one after the other
ReqIds == {"r1"}

\* the strings asked for: the two addresses, a string that is no address
\* and a string with a prefix length that is none
Inputs == Keys \cup {<<256, 0, 0, 1>>, <<8, 8, 8, 0, 33>>}

\* what BgpApiClient::query can answer: a result without metadata, and one
\* whose second and third metadata entries name origin ASNs (the
\* first of them two)
BgpApiResults ==
    {[prefix |-> "p/24", meta |-> <<>>],
     [prefix |-> "p/24",
      meta |-> <<[origin_asns |-> None],
                 [origin_asns |-> Some(<<"AS64500", "AS64502">>)],
                 [origin_asns |-> Some(<<"AS64501">>)]>>]}

\* the request before the call; calls lists the provider invocations and
\* log every event of the request, both in the order they happen; geo_arg,
\* enrich_arg and bgp_api_prefix are what the databases, the providers and
\* the BGP API were asked about
NoReq ==
    [pc |-> "idle", ip |-> <<>>, ts |-> 0, info |-> <<>>, pending |-> {},
     whois |-> None, bgp_tools |-> None, bgp_api |-> None, rpki |-> <<>>,
     calls |-> <<>>, log |-> <<>>, set_result |-> None, resp |-> <<>>,
     geo_arg |-> None, enrich_arg |-> None, bgp_api_prefix |-> None]

\* a response that never carries a cache timestamp
create_response_untagged(info, cached_timestamp) ==
    [info |-> [ip |-> info.ip, ip_range |-> info.ip_range,
               country |-> info.country, city |-> info.city,
               asn |-> info.asn, organization |-> info.organization],
     whois_info |-> info.whois_info,
     bgp_info |-> info.bgp_info,
     rpki_info_list |-> info.rpki_info_list,
     cached |-> None]

\* create_response_from_ip_info
create_response_from_ip_info(info, cached_timestamp) ==
    [info |-> [ip |-> info.ip, ip_range |-> info.ip_range,
               country |-> info.country, city |-> info.city,
               asn |-> info.asn, organization |-> info.organization],
     whois_info |-> info.whois_info,
     bgp_info |-> info.bgp_info,
     rpki_info_list |-> info.rpki_info_list,
     cached |-> cached_timestamp]

\* (StatusCode::OK, Json(response))
OkResponse(body) == [status |-> 200, body |-> body]

\* (StatusCode::BAD_REQUEST, Json(ErrorResponse))
ErrorResponse(e) ==
    [status |-> 400, body |-> [status |-> "error", message |-> e]]

\* a handler that answers with the error of cache.set
response_or_set_error(set_result, response) ==
    IF set_result = Some("err") THEN ErrorResponse("cache set failed")
    ELSE OkResponse(response)

\* lines 228-232: the error of cache.set is logged and the response built
\* at line 225 is returned
response_after_set(set_result, response) == OkResponse(response)

\* meta.iter().find(|m| m.origin_asns.is_some()): the index found, 0 if none
RECURSIVE FindAsns(_, _)
FindAsns(meta, i) ==
    IF i > Len(meta) THEN 0
    ELSE IF meta[i].origin_asns # None THEN i
    ELSE FindAsns(meta, i + 1)

\* the origin ASNs of every metadata entry
RECURSIVE AllAsns(_)
AllAsns(meta) ==
    IF meta = <<>> THEN <<>>
    ELSE (IF Head(meta).origin_asns # None
          THEN Head(meta).origin_asns[1] ELSE <<>>) \o AllAsns(Tail(meta))

\* RPKI queries for the origin ASNs of every metadata entry
RpkiAsnsOfAll(bgp_result) == AllAsns(bgp_result.meta)

\* the origin ASNs the RPKI queries are made for
RpkiAsns(bgp_result) ==
    LET i == FindAsns(bgp_result.meta, 1)
    IN IF i = 0 THEN <<>> ELSE bgp_result.meta[i].origin_asns[1]

\* a collection that gives up at the first failed query
RECURSIVE CollectUntilNone(_)
CollectUntilNone(results) ==
    IF results = <<>> \/ Head(results) = None THEN <<>>
    ELSE Head(results) \o CollectUntilNone(Tail(results))

\* filter_map over the results of join_all, which are in the order of asns
RECURSIVE CollectSome(_)
CollectSome(results) ==
    IF results = <<>> THEN <<>>
    ELSE Head(results) \o CollectSome(Tail(results))

\* a cache whose answer is never used
CacheHitNever(cached) == FALSE

\* if let Some(cached_info) = state.cache.get(&ip).await
CacheHit(cached) == cached # None

\* a join that returns as soon as it is polled
join_first(pending) == TRUE

\* tokio::join! returns when its three futures have returned
join_complete(pending) == pending = {}

\* a join_all that returns as soon as it is polled
join_all_first(pending) == TRUE

\* join_all returns when every future has returned
join_all_complete(pending) == pending = {}

\* a merge that keeps the enrichment only when all of it arrived
merge_all_or_nothing(info, whois_result, bgp_tools_result, bgp_api_result) ==
    IF whois_result # None /\ bgp_tools_result # None /\ bgp_api_result # None
    THEN [info EXCEPT !.whois_info = whois_result,
                      !.bgp_info = bgp_tools_result,
                      !.bgp_api_info = bgp_api_result]
    ELSE info

\* lines 179-188: each result that is Some goes into its field
merge(info, whois_result, bgp_tools_result, bgp_api_result) ==
    [info EXCEPT
        !.whois_info = IF whois_result # None THEN whois_result ELSE @,
        !.bgp_info = IF bgp_tools_result # None THEN bgp_tools_result ELSE @,
        !.bgp_api_info = IF bgp_api_result # None THEN bgp_api_result ELSE @]

Outcome(ok) == IF ok THEN "ok" ELSE "err"

\* lines 108-112: a request arrives for ip
ApiReceive(r, ip) ==
    /\ phase = "running"
    /\ rq[r].pc = "idle"
    /\ rq' = [rq EXCEPT ![r] = [NoReq EXCEPT !.pc = "cache", !.ip = ip,
                                            !.ts = now]]
    /\ UNCHANGED <<storeVars, lk, reader, sched>>

\* lines 114-119: cache.get; a hit is answered at once
ApiCacheCheck(r) ==
    /\ rq[r].pc = "cache"
    /\ kv_get(rq[r].ip)
    /\ LET cached == get(rq[r].ip)
       IN rq' = [rq EXCEPT ![r] =
            IF CacheHit(cached)
            THEN [@ EXCEPT !.pc = "idle",
                    !.log = @ \o <<<<"cache.get", "hit">>, <<"respond">>>>,
                    !.resp = Some(OkResponse(create_response_from_ip_info(
                                                cached[1], Some(rq[r].ts))))]
            ELSE [@ EXCEPT !.pc = "primary",
                    !.log = @ \o <<<<"cache.get", "miss">>>>]]
    /\ UNCHANGED <<lk, reader, sched>>

\* lines 121-125 and 234-241: the read lock of the reader, reader.lookup;
\* its error is the response, and the guard is dropped with it
ApiPrimaryLookup(r) ==
    /\ rq[r].pc = "primary"
    /\ CanReadGeo(reader)
    /\ LET res == lookup(rq[r].ip)
       IN /\ rq' = [rq EXCEPT ![r] =
            IF res.ok
            THEN [@ EXCEPT !.pc = "enrich",
                    !.info = res.info,
                    !.geo_arg = res.at,
                    !.calls = IF res.geo THEN @ \o <<"geo">> ELSE @,
                    !.log = @ \o <<<<"primary", "ok">>>>]
            ELSE [@ EXCEPT !.pc = "idle",
                    !.log = @ \o <<<<"primary", "err">>, <<"respond">>>>,
                    !.resp = Some(ErrorResponse(res.err))]]
          /\ reader' = IF res.ok THEN hold_reader(reader, r) ELSE reader
    /\ UNCHANGED <<storeVars, lk, sched>>

\* line 127: the string handed to the three providers
ip_cloned(ip) == ip

\* BgpApiClient::query, lines 35-39: the prefix asked for is the string
\* with /32 appended (/128 for a string with a colon, an IPv6 address)
query_prefix(ip) == ip \o (IF Len(ip) = 8 THEN <<128>> ELSE <<32>>)

\* lines 128-176, the first poll of tokio::join!: whois_future runs to its
\* end (WhoisClient::lookup blocks), the two BGP futures send their requests
ApiEnrichStart(r, whois_ok) ==
    /\ rq[r].pc = "enrich"
    /\ LET i == rq[r].info
           w == i.whois_info = None
           t == i.bgp_info = None
           a == i.bgp_api_info = None
       IN rq' = [rq EXCEPT
            ![r].pc = "join",
            ![r].enrich_arg = Some(ip_cloned(rq[r].ip)),
            ![r].bgp_api_prefix =
                IF a THEN Some(query_prefix(ip_cloned(rq[r].ip))) ELSE None,
            ![r].whois = IF w /\ whois_ok THEN Some("whois") ELSE None,
            ![r].calls = @ \o (IF w THEN <<"whois">> ELSE <<>>)
                           \o (IF t THEN <<"bgp_tools">> ELSE <<>>)
                           \o (IF a THEN <<"bgp_api">> ELSE <<>>),
            ![r].log = @ \o (IF w THEN <<<<"start", "whois">>,
                                         <<Outcome(whois_ok), "whois">>>>
                                  ELSE <<>>)
                         \o (IF t THEN <<<<"start", "bgp_tools">>>> ELSE <<>>)
                         \o (IF a THEN <<<<"start", "bgp_api">>>> ELSE <<>>),
            ![r].pending = (IF t THEN {"bgp_tools"} ELSE {})
                           \cup (IF a THEN {"bgp_api"} ELSE {})]
    /\ UNCHANGED <<storeVars, lk, reader, sched>>

\* BgpToolsClient::lookup returns
ApiBgpToolsDone(r, ok) ==
    /\ rq[r].pc = "join"
    /\ "bgp_tools" \in rq[r].pending
    /\ rq' = [rq EXCEPT ![r].pending = @ \ {"bgp_tools"},
                        ![r].log = @ \o <<<<Outcome(ok), "bgp_tools">>>>,
                        ![r].bgp_tools = IF ok THEN Some("bgp_tools") ELSE None]
    /\ UNCHANGED <<storeVars, lk, reader, sched>>

\* BgpApiClient::query returns: res is None for Err
ApiBgpApiDone(r, res) ==
    /\ rq[r].pc = "join"
    /\ "bgp_api" \in rq[r].pending
    /\ rq' = [rq EXCEPT ![r].pending = @ \ {"bgp_api"},
                        ![r].log = @ \o <<<<Outcome(res # None), "bgp_api">>>>,
                        ![r].bgp_api = res]
    /\ UNCHANGED <<storeVars, lk, reader, sched>>

\* lines 178-210: the join is complete, the results go into info, and the
\* RPKI queries, if any, are sent
ApiJoin(r) ==
    /\ rq[r].pc = "join"
    /\ join_complete(rq[r].pending)
    /\ LET q == rq[r]
           asns == IF q.bgp_api # None THEN RpkiAsns(q.bgp_api[1]) ELSE <<>>
       IN rq' = [rq EXCEPT
            ![r].info = merge(q.info, q.whois, q.bgp_tools, q.bgp_api),
            ![r].pc = IF q.bgp_api # None /\ FindAsns(q.bgp_api[1].meta, 1) # 0
                      THEN "rpki" ELSE "store",
            ![r].rpki = [n \in 1..Len(asns) |-> None],
            ![r].pending = {n \in 1..Len(asns) : TRUE},
            ![r].calls = @ \o [n \in 1..Len(asns) |-> "rpki"],
            ![r].log = @ \o [n \in 1..Len(asns) |->
                               <<"start", "rpki", q.bgp_api[1].prefix,
                                 asns[n]>>]]
    /\ UNCHANGED <<storeVars, lk, reader, sched>>

\* what the n-th RPKI query of the request was made for
RpkiQuery(r, n) ==
    SelectSeq(rq[r].log, LAMBDA e : e[1] = "start" /\ e[2] = "rpki")[n]

\* one of the RpkiClient::query calls returns
ApiRpkiDone(r, ok) ==
    /\ rq[r].pc = "rpki"
    /\ \E n \in rq[r].pending :
         rq' = [rq EXCEPT
            ![r].pending = @ \ {n},
            ![r].log = @ \o <<<<Outcome(ok), "rpki", RpkiQuery(r, n)[3],
                                RpkiQuery(r, n)[4]>>>>,
            ![r].rpki[n] =
                IF ok
                THEN Some([asn |-> RpkiQuery(r, n)[4],
                           prefix |-> RpkiQuery(r, n)[3],
                           validity |-> "valid"])
                ELSE None]
    /\ UNCHANGED <<storeVars, lk, reader, sched>>

\* lines 212-219: join_all is complete
ApiRpkiJoin(r) ==
    /\ rq[r].pc = "rpki"
    /\ join_all_complete(rq[r].pending)
    /\ rq' = [rq EXCEPT ![r].pc = "store",
                        ![r].pending = {},
                        ![r].info.rpki_info_list = CollectSome(rq[r].rpki)]
    /\ UNCHANGED <<storeVars, lk, reader, sched>>

\* lines 224-230: the response is built, cache.set
ApiStore(r) ==
    /\ rq[r].pc = "store"
    /\ kv_set(rq[r].ip, rq[r].info)
    /\ rq' = [rq EXCEPT ![r].pc = "respond",
                        ![r].set_result = Some(ret'.res),
                        ![r].log = @ \o <<<<"cache.set">>>>]
    /\ UNCHANGED <<lk, reader, sched>>

\* lines 232 and 243, once cache.set has returned: the response, and the
\* guard of the reader goes out of scope
ApiRespond(r) ==
    /\ rq[r].pc = "respond"
    /\ ppc = "idle"
    /\ rq' = [rq EXCEPT
            ![r].pc = "idle",
            ![r].log = @ \o <<<<"respond">>>>,
            ![r].resp = Some(response_after_set(
                                rq[r].set_result,
                                create_response_from_ip_info(rq[r].info, None)))]
    /\ reader' = release_reader(reader, r)
    /\ UNCHANGED <<storeVars, lk, sched>>

(***************************************************************************)
(* The store on its own: its operations called in any order                *)
(***************************************************************************)
Init ==
    /\ InitStore
    /\ rq = [r \in Handlers |-> NoReq]
    /\ lk = NoLock
    /\ reader = NoGeo
    /\ sched = NoSched

Get(k) == kv_get(k) /\ UNCHANGED apiVars

ContainsKey(k) == kv_contains(k) /\ UNCHANGED apiVars

Stats == kv_stats /\ UNCHANGED apiVars

Set(k, v) == kv_set(k, v) /\ UNCHANGED apiVars

Remove(k) == kv_remove(k) /\ UNCHANGED apiVars

CleanupTick == kv_cleanup /\ UNCHANGED apiVars

PersistTick == kv_persist_tick /\ UNCHANGED apiVars

Next ==
    \/ StartBackgroundTasks
    \/ \E k \in Keys : Get(k)
    \/ \E k \in Keys : ContainsKey(k)
    \/ Stats
    \/ \E k \in Keys, v \in Vals : Set(k, v)
    \/ \E k \in Keys : Remove(k)
    \/ CleanupTick
    \/ PersistTick
    \/ PersistPrepare
    \/ PersistOpen
    \/ PersistWrite
    \/ PersistFlush
    \/ PersistRename
    \/ PersistFail
    \/ Tick
    \/ Restart

Spec == Init /\ [][Next]_vars

(***************************************************************************)
(* The server: lookup requests against the store once main has started it  *)
(* (main.rs:44-51, 95-106), within one persist interval of the start, with *)
(* every outcome of every provider                                         *)
(***************************************************************************)
InitApi ==
    /\ InitStore
    /\ rq = [r \in Handlers |-> NoReq]
    /\ lk = NoLock
    /\ reader = NoGeo
    /\ sched = NoSched

NextApi ==
    \/ StartBackgroundTasks
    \/ \E r \in ReqIds, ip \in Inputs : ApiReceive(r, ip)
    \/ \E r \in ReqIds : ApiCacheCheck(r)
    \/ \E r \in ReqIds : ApiPrimaryLookup(r)
    \/ \E r \in ReqIds, ok \in BOOLEAN : ApiEnrichStart(r, ok)
    \/ \E r \in ReqIds, ok \in BOOLEAN : ApiBgpToolsDone(r, ok)
    \/ \E r \in ReqIds, res \in {None} \cup {Some(x) : x \in BgpApiResults} :
          ApiBgpApiDone(r, res)
    \/ \E r \in ReqIds : ApiJoin(r)
    \/ \E r \in ReqIds, ok \in BOOLEAN : ApiRpkiDone(r, ok)
    \/ \E r \in ReqIds : ApiRpkiJoin(r)
    \/ \E r \in ReqIds : ApiStore(r)
    \/ \E r \in ReqIds : ApiRespond(r)

SpecApi == InitApi /\ [][NextApi]_vars

(***************************************************************************)
(* The server over time: the clock advances, the two background loops run  *)
(* and a set persists when the interval has passed.  The providers answer  *)
(* the same way every time (WHOIS and BGP-topology succeed, the BGP-prefix *)
(* answer has no metadata, so no RPKI query is made).                      *)
(***************************************************************************)
NextApiClock ==
    \/ StartBackgroundTasks
    \/ \E r \in ReqIds, ip \in Inputs : ApiReceive(r, ip)
    \/ \E r \in ReqIds : ApiCacheCheck(r)
    \/ \E r \in ReqIds : ApiPrimaryLookup(r)
    \/ \E r \in ReqIds : ApiEnrichStart(r, TRUE)
    \/ \E r \in ReqIds : ApiBgpToolsDone(r, TRUE)
    \/ \E r \in ReqIds :
          ApiBgpApiDone(r, Some([prefix |-> "p/24", meta |-> <<>>]))
    \/ \E r \in ReqIds : ApiJoin(r)
    \/ \E r \in ReqIds : ApiStore(r)
    \/ \E r \in ReqIds : ApiRespond(r)
    \/ CleanupTick
    \/ PersistTick
    \/ PersistPrepare
    \/ PersistOpen
    \/ PersistWrite
    \/ PersistFlush
    \/ PersistRename
    \/ PersistFail
    \/ Tick

SpecApiClock == InitApi /\ [][NextApiClock]_vars

(***************************************************************************)
(* The server with a store that other requests have filled: besides the    *)
(* lookups, records are cached directly, among them one that takes the     *)
(* store to its capacity                                                   *)
(***************************************************************************)
\* a record whose WHOIS text is so long that the record alone takes the
\* store to its capacity; bytes is its serialized length
LongRecord(ip) ==
    [ip |-> ip, ip_range |-> None, country |-> Some("US"),
     city |-> None, asn |-> None, organization |-> None,
     whois_info |-> Some("long"), bgp_info |-> None, bgp_api_info |-> None,
     rpki_info_list |-> <<>>, bytes |-> 1073741744]

NextApiFull ==
    \/ StartBackgroundTasks
    \/ \E k \in Keys : Set(k, LongRecord(k))
    \/ \E r \in ReqIds, ip \in Keys : ApiReceive(r, ip)
    \/ \E r \in ReqIds : ApiCacheCheck(r)
    \/ \E r \in ReqIds : ApiPrimaryLookup(r)
    \/ \E r \in ReqIds, ok \in BOOLEAN : ApiEnrichStart(r, ok)
    \/ \E r \in ReqIds : ApiBgpToolsDone(r, TRUE)
    \/ \E r \in ReqIds :
          ApiBgpApiDone(r, Some([prefix |-> "p/24", meta |-> <<>>]))
    \/ \E r \in ReqIds : ApiJoin(r)
    \/ \E r \in ReqIds : ApiStore(r)
    \/ \E r \in ReqIds : ApiRespond(r)

SpecApiFull == InitApi /\ [][NextApiFull]_vars

(***************************************************************************)
(* Two handler tasks serving requests for one address at the same time     *)
(***************************************************************************)
NextApiPair ==
    \/ StartBackgroundTasks
    \/ \E r \in Handlers : ApiReceive(r, <<8, 8, 8, 8>>)
    \/ \E r \in Handlers : ApiCacheCheck(r)
    \/ \E r \in Handlers : ApiPrimaryLookup(r)
    \/ \E r \in Handlers, ok \in BOOLEAN : ApiEnrichStart(r, ok)
    \/ \E r \in Handlers : ApiBgpToolsDone(r, TRUE)
    \/ \E r \in Handlers :
          ApiBgpApiDone(r, Some([prefix |-> "p/24", meta |-> <<>>]))
    \/ \E r \in Handlers : ApiJoin(r)
    \/ \E r \in Handlers : ApiStore(r)
    \/ \E r \in Handlers : ApiRespond(r)

SpecApiPair == InitApi /\ [][NextApiPair]_vars

(***************************************************************************)
(* The callers of the store step by step: each takes the lock, does its    *)
(* operation and drops the guard                                           *)
(***************************************************************************)
NextLock ==
    \/ StartBackgroundTasks
    \/ \E t \in Readers : LockRead(t)
    \/ \E t \in Readers, k \in Keys : ReadGet(t, k)
    \/ \E t \in Readers, k \in Keys : ReadContains(t, k)
    \/ \E t \in Readers : ReadStats(t)
    \/ \E t \in Readers : UnlockRead(t)
    \/ \E op \in WriteOps : LockWrite(op)
    \/ \E k \in Keys : WriteSet(k, [id |-> "A", bytes |-> 100])
    \/ \E k \in Keys : WriteRemove(k)
    \/ WriteSweep
    \/ WritePersist
    \/ PersistPrepare
    \/ PersistOpen
    \/ PersistWrite
    \/ PersistFlush
    \/ PersistRename
    \/ PersistFail
    \/ UnlockWrite
    \/ Tick

SpecLock == Init /\ [][NextLock]_vars

(***************************************************************************)
(* load_from_disk on a store that holds entries, and on a file that does   *)
(* not deserialize                                                         *)
(***************************************************************************)
NextLoad ==
    \/ StartBackgroundTasks
    \/ \E k \in Keys, v \in Vals : Set(k, v)
    \/ PersistTick
    \/ PersistPrepare
    \/ PersistOpen
    \/ PersistWrite
    \/ PersistFlush
    \/ PersistRename
    \/ PersistFail
    \/ Tick
    \/ StartAgain
    \/ Corrupt

SpecLoad == Init /\ [][NextLoad]_vars

(***************************************************************************)
(* The two loops under fair scheduling: main reaches start_tasks, tokio's  *)
(* RwLock serves its waiters in turn, so a loop that waits for the lock    *)
(* gets it, and a call of persist_to_disk runs to its return               *)
(***************************************************************************)
NextLive ==
    \/ StartBackgroundTasks
    \/ \E k \in Keys : Set(k, [id |-> "A", bytes |-> 100])
    \/ CleanupTick
    \/ PersistTick
    \/ PersistPrepare
    \/ PersistOpen
    \/ PersistWrite
    \/ PersistFlush
    \/ PersistRename
    \/ PersistFail
    \/ Tick

SpecLive ==
    /\ Init
    /\ [][NextLive]_vars
    /\ WF_vars(StartBackgroundTasks)
    /\ SF_vars(CleanupTick)
    /\ SF_vars(PersistTick)
    /\ WF_vars(PersistPrepare)
    /\ WF_vars(PersistOpen)
    /\ WF_vars(PersistWrite)
    /\ WF_vars(PersistFlush)
    /\ WF_vars(PersistRename \/ PersistFail)


(***************************************************************************)
(* Requests for prefixes: a.b.c.d/n with and without host bits, and one    *)
(* that is no prefix.  BgpToolsClient::query_whois parses its argument as  *)
(* an address first (bgptools_client.rs:80-83) and fails on the others.    *)
(***************************************************************************)
CidrInputs == {<<8, 8, 8, 0, 24>>, <<8, 8, 8, 77, 24>>, <<8, 8, 8, 0, 33>>}

NextApiCidr ==
    \/ StartBackgroundTasks
    \/ \E r \in ReqIds, ip \in CidrInputs : ApiReceive(r, ip)
    \/ \E r \in ReqIds : ApiCacheCheck(r)
    \/ \E r \in ReqIds : ApiPrimaryLookup(r)
    \/ \E r \in ReqIds, ok \in BOOLEAN : ApiEnrichStart(r, ok)
    \/ \E r \in ReqIds : ApiBgpToolsDone(r, ParsesAsIp(rq[r].enrich_arg[1]))
    \/ \E r \in ReqIds, res \in {None} \cup {Some(b) : b \in BgpApiResults} :
          ApiBgpApiDone(r, res)
    \/ \E r \in ReqIds : ApiJoin(r)
    \/ \E r \in ReqIds, ok \in BOOLEAN : ApiRpkiDone(r, ok)
    \/ \E r \in ReqIds : ApiRpkiJoin(r)
    \/ \E r \in ReqIds : ApiStore(r)
    \/ \E r \in ReqIds : ApiRespond(r)

SpecApiCidr == InitApi /\ [][NextApiCidr]_vars

(***************************************************************************)
(* Requests for addresses of the special-purpose ranges: 224.0.0.1,        *)
(* 255.255.255.255, 2001:db8::1 and fe80::1                                *)
(***************************************************************************)
SpecialInputs ==
    {<<224, 0, 0, 1>>, <<255, 255, 255, 255>>,
     <<8193, 3512, 0, 0, 0, 0, 0, 1>>, <<65152, 0, 0, 0, 0, 0, 0, 1>>}

NextApiSpecial ==
    \/ StartBackgroundTasks
    \/ \E r \in ReqIds, ip \in SpecialInputs : ApiReceive(r, ip)
    \/ \E r \in ReqIds : ApiCacheCheck(r)
    \/ \E r \in ReqIds : ApiPrimaryLookup(r)
    \/ \E r \in ReqIds : ApiEnrichStart(r, TRUE)
    \/ \E r \in ReqIds : ApiBgpToolsDone(r, TRUE)
    \/ \E r \in ReqIds :
          ApiBgpApiDone(r, Some([prefix |-> "p/24", meta |-> <<>>]))
    \/ \E r \in ReqIds : ApiJoin(r)
    \/ \E r \in ReqIds : ApiStore(r)
    \/ \E r \in ReqIds : ApiRespond(r)

SpecApiSpecial == InitApi /\ [][NextApiSpecial]_vars

(***************************************************************************)
(* The scheduler with a callback that may return Ok or Err                 *)
(***************************************************************************)
SchedWake(ok) == sched_wake(ok) /\ UNCHANGED <<storeVars, rq, lk, reader>>

NextSched ==
    \/ StartBackgroundTasks
    \/ \E d \in ClockSteps : SchedTick(d)
    \/ \E ok \in BOOLEAN : SchedWake(ok)

SpecSched == Init /\ [][NextSched]_vars

(***************************************************************************)
(* The scheduler with the callback of main and the update tasks it spawns  *)
(***************************************************************************)
NextRefresh ==
    \/ StartBackgroundTasks
    \/ \E d \in ClockSteps : SchedTick(d)
    \/ SchedRefresh
    \/ \E t \in Tasks, n \in 0..3 : UpdateDone(t, n)
    \/ \E t \in Tasks : ReloadLock(t)
    \/ \E t \in Tasks, n \in 0..3 : ReloadDone(t, n)

SpecRefresh == Init /\ [][NextRefresh]_vars

(***************************************************************************)
(* The server at work: two handler tasks, the two loops of the store, the  *)
(* scheduler and its update tasks.  Provider calls return, the locks are   *)
(* granted fairly and a step that is due is taken.                         *)
(***************************************************************************)
\* how many days pass while the requests are served
MaxServeDays == 1

ServeDay == sched.ticks < MaxServeDays /\ SchedTick(DAY)

NextServe ==
    \/ StartBackgroundTasks
    \/ \E r \in Handlers : ApiReceive(r, <<8, 8, 8, 8>>)
    \/ \E r \in Handlers : ApiCacheCheck(r)
    \/ \E r \in Handlers : ApiPrimaryLookup(r)
    \/ \E r \in Handlers : ApiEnrichStart(r, TRUE)
    \/ \E r \in Handlers : ApiBgpToolsDone(r, TRUE)
    \/ \E r \in Handlers :
          ApiBgpApiDone(r, Some([prefix |-> "p/24", meta |-> <<>>]))
    \/ \E r \in Handlers : ApiJoin(r)
    \/ \E r \in Handlers : ApiStore(r)
    \/ \E r \in Handlers : ApiRespond(r)
    \/ CleanupTick
    \/ PersistTick
    \/ PersistPrepare
    \/ PersistOpen
    \/ PersistWrite
    \/ PersistFlush
    \/ PersistRename
    \/ ServeDay
    \/ SchedRefresh
    \/ \E t \in Tasks : UpdateDone(t, 3)
    \/ \E t \in Tasks : ReloadLock(t)
    \/ \E t \in Tasks : ReloadDone(t, 3)

\* the steps of a handler after it has received a request
HandlerStep(r) ==
    \/ ApiCacheCheck(r)
    \/ ApiPrimaryLookup(r)
    \/ ApiEnrichStart(r, TRUE)
    \/ ApiBgpToolsDone(r, TRUE)
    \/ ApiBgpApiDone(r, Some([prefix |-> "p/24", meta |-> <<>>]))
    \/ ApiJoin(r)
    \/ ApiStore(r)
    \/ ApiRespond(r)

\* the steps of persist_to_disk once it has been entered
PersistStep ==
    \/ PersistPrepare
    \/ PersistOpen
    \/ PersistWrite
    \/ PersistFlush
    \/ PersistRename

\* the steps of an update task that has its files: the write lock and
\* load_databases
ReloadStep(t) == ReloadLock(t) \/ ReloadDone(t, 3)

\* A handler task is polled again whenever a lock it waits for is free
\* often enough (the locks of tokio queue their waiters), the task inside
\* persist_to_disk runs on, and an update task that waits for the write
\* lock gets it and loads the files.  Nothing is assumed of the clock, of
\* the arrival of requests or of the download.
SpecServe ==
    /\ InitApi
    /\ [][NextServe]_vars
    /\ \A r \in Handlers : SF_vars(HandlerStep(r))
    /\ WF_vars(PersistStep)
    /\ \A t \in Tasks : WF_vars(ReloadStep(t))
(***************************************************************************)
(* Properties of the store                                                 *)
(***************************************************************************)
\* the entries of map m whose deadline is after time t
Unexpired(m, t) == [k \in {x \in DOMAIN m : m[x].expires_at > t} |-> m[k]]

\* the step just taken is the operation op returning
Returned(op) == ret' # ret /\ ret'.op = op

\* C1: in every reachable state, inside persist_to_disk and right after a
\* load included, current_size_bytes is the sum of size_bytes over the
\* entries of the map.
C1_SizeIsSumOfEntries == current_size_bytes = SumSizes(entries)

\* a sweep has removed an expired entry and left a live one behind
C1_Witness ==
    /\ ret.op = "sweep"
    /\ ret.count > 0
    /\ entries # EmptyMap

\* C2: in every reachable state current_size_bytes is at most
\* MAX_MEMORY_BYTES, right after a load from a snapshot file included.
C2_SizeWithinCapacity == current_size_bytes <= MAX_MEMORY_BYTES

\* a load from a snapshot file has filled the store to the last byte
C2_Witness ==
    /\ ret.op = "load"
    /\ ret.res = "ok"
    /\ ret.file
    /\ current_size_bytes = MAX_MEMORY_BYTES

\* C3: a set(k, v) whose new total (the sizes of the other keys' entries
\* plus the size of the new entry) exceeds the capacity returns an error and
\* leaves the map, len() and current_size_bytes as they were; a set within
\* the capacity is not rejected.
C3_RejectedSetChangesNothing ==
    [][Returned("set") =>
        LET k == ret'.key
            total == SumSizes(Without(entries, k)) + estimate_size(k, ret'.value)
        IN /\ (total > MAX_MEMORY_BYTES) <=> (ret'.res = "err")
           /\ ret'.res = "err" =>
                /\ entries' = entries
                /\ current_size_bytes' = current_size_bytes
                /\ len' = len
                /\ memory_usage' = memory_usage]_vars

\* a set of a key that has an entry was rejected
C3_Witness ==
    /\ ret.op = "set"
    /\ ret.res = "err"
    /\ ret.key \in DOMAIN entries
    /\ entries[ret.key].value # ret.value

\* C4: get(k) returns a value, the value of k's entry, and contains(k) is
\* true exactly when the map holds an entry for k with expires_at > now; at
\* now = expires_at and later both report the key absent.
C4_VisibleIffUnexpired ==
    /\ ret.op = "get" =>
         IF ret.key \in DOMAIN entries /\ entries[ret.key].expires_at > now
         THEN ret.res = Some(entries[ret.key].value)
         ELSE ret.res = None
    /\ ret.op = "contains" =>
         (ret.res <=> (ret.key \in DOMAIN entries
                        /\ entries[ret.key].expires_at > now))

\* a get at the very second of the deadline reported the key absent
C4_Witness ==
    /\ ret.op = "get"
    /\ ret.res = None
    /\ ret.key \in DOMAIN entries
    /\ entries[ret.key].expires_at = now

\* C5: a get(k) after a successful set(k, v), before the TTL of that set has
\* elapsed and with no later set or remove of k and no load, returns v, the
\* most recently set value.
C5_GetReturnsLastSet ==
    (ret.op = "get" /\ hist[ret.key].value # None)
        => ret.res = hist[ret.key].value

\* a get returned, some time after the set, the value a key was last set to;
\* the snapshot written earlier in this run shows the key held another value
\* before
C5_Witness ==
    /\ ret.op = "get"
    /\ hist[ret.key].value # None
    /\ hist[ret.key].at < now
    /\ ret.res = hist[ret.key].value
    /\ restarts = 0
    /\ files[file_path].kind = "snapshot"
    /\ ret.key \in DOMAIN files[file_path].entries
    /\ Some(files[file_path].entries[ret.key].value) # ret.res

\* C6: an expired entry stays in the map until a sweep, a remove or an
\* overwrite takes it out (the passing of time and the reads remove
\* nothing), and it is counted by len() and memory_usage(), which stats
\* reports, while get and contains report it absent.
C6_ExpiredEntryStillCounted ==
    /\ [](/\ ret.op = "stats" =>
               /\ ret.len = Cardinality(DOMAIN entries)
               /\ ret.bytes = SumSizes(entries)
          /\ (ret.op = "get" /\ ret.key \in DOMAIN entries
                /\ entries[ret.key].expires_at <= now) => ret.res = None
          /\ (ret.op = "contains" /\ ret.key \in DOMAIN entries
                /\ entries[ret.key].expires_at <= now) => ret.res = FALSE)
    /\ [][\A k \in DOMAIN entries :
            k \notin DOMAIN entries' =>
                \/ Returned("remove") /\ ret'.key = k
                \/ Returned("sweep") /\ entries[k].expires_at <= now
                \/ phase' = "new"]_vars

\* stats counted two entries of which one had expired
C6_Witness ==
    /\ ret.op = "stats"
    /\ ret.len = 2
    /\ \E k \in DOMAIN entries : entries[k].expires_at <= now
    /\ \E k \in DOMAIN entries : entries[k].expires_at > now

\* C7: the deadline of an entry that stays in the map changes only by a
\* successful set of its key, which makes it now + EXPIRY_DURATION; get,
\* contains, stats, persist, sweeps and the clock leave it alone.
C7_DeadlineFixedBySet ==
    [][\A k \in DOMAIN entries' :
         \/ k \in DOMAIN entries
            /\ entries'[k].expires_at = entries[k].expires_at
            /\ ~(Returned("set") /\ ret'.key = k /\ ret'.res = "ok")
         \/ Returned("set") /\ ret'.key = k /\ ret'.res = "ok"
            /\ entries'[k].expires_at = now + EXPIRY_DURATION
         \/ Returned("load") /\ k \notin DOMAIN entries
            /\ entries'[k].expires_at = files[file_path].entries[k].expires_at
      ]_vars

\* a get returned a value that was set at an earlier instant, its deadline
\* still the one that set gave it
C7_Witness ==
    /\ ret.op = "get"
    /\ ret.res # None
    /\ now > 0
    /\ entries[ret.key].expires_at = EXPIRY_DURATION

\* C8: whatever step of persist_to_disk fails or is cut short by the end of
\* the process, the snapshot file is absent or holds a complete snapshot,
\* it changes only to the complete snapshot of the map being persisted, and
\* a load never meets a partial snapshot.
C8_SnapshotFileAlwaysComplete ==
    /\ [](/\ files[file_path].kind \in {"nofile", "snapshot"}
          /\ ret.op = "load" => ret.res # "corrupt")
    /\ [][files'[file_path] # files[file_path]
            => files'[file_path] = [kind |-> "snapshot", entries |-> entries]]_vars

\* the process ended inside write_all: part of a snapshot is at the
\* temporary path and the snapshot file still holds the previous snapshot
C8_Witness ==
    /\ phase = "new"
    /\ restarts > 0
    /\ files[temp_path] = Partial
    /\ files[file_path].kind = "snapshot"
    /\ files[file_path].entries # EmptyMap

\* C9: a successful persist leaves the whole map in the snapshot file, and a
\* load of that file into the empty store of a new process yields exactly
\* the snapshot's entries with expires_at > now, each with its value,
\* deadline and size, and current_size_bytes their sum.
C9_PersistThenLoad ==
    /\ [][(Returned("persist") /\ ret'.res = "ok")
            => files'[file_path] = [kind |-> "snapshot", entries |-> entries]]_vars
    /\ [][(Returned("load") /\ ret'.res = "ok" /\ ret'.file)
            => /\ entries = EmptyMap
               /\ entries' = Unexpired(files[file_path].entries, now)
               /\ current_size_bytes' = SumSizes(entries')]_vars

\* a load kept one entry of the snapshot and dropped an expired one
C9_Witness ==
    /\ ret.op = "load"
    /\ ret.res = "ok"
    /\ ret.file
    /\ entries # EmptyMap
    /\ \E k \in DOMAIN files[file_path].entries :
          /\ k \notin DOMAIN entries
          /\ files[file_path].entries[k].expires_at <= now

(***************************************************************************)
(* Properties of the lookup handler                                        *)
(***************************************************************************)
\* C10: a lookup of a reserved address calls no provider (no database read,
\* no WHOIS, BGP-topology, BGP-prefix or RPKI call) and is answered with the
\* canned reserved record: country and organization the reserved marker,
\* every other field empty.
C10_ReservedLookupCallsNoProvider ==
    \A r \in ReqIds :
        (rq[r].ip # <<>> /\ is_reserved_ip(rq[r].ip)) =>
            /\ rq[r].calls = <<>>
            /\ rq[r].resp # None =>
                 rq[r].resp[1].body =
                    create_response_from_ip_info(ReservedInfo(rq[r].ip), None)

(***************************************************************************)
(* Properties of the lookup handler, over the log of each request          *)
(***************************************************************************)
Enrichers == {"whois", "bgp_tools", "bgp_api"}

HasEvent(r, e) == \E i \in DOMAIN rq[r].log : rq[r].log[i] = e

IsRpkiStart(e) == Len(e) = 4 /\ e[1] = "start"

IsRpkiDone(e) == Len(e) = 4 /\ e[1] \in {"ok", "err"}

IsDoneOf(e, p) == e = <<"ok", p>> \/ e = <<"err", p>>

\* the events of the stages after EnrichmentFanout
IsAfterEnrichment(e) == IsRpkiStart(e) \/ e = <<"cache.set">>

\* the address asked for is held by the store with a deadline still ahead
HoldsLive(k) == k \in DOMAIN entries /\ entries[k].expires_at > now

\* C11: a lookup of a reserved address does not touch the cache: no
\* cache read and no cache write is made for the request, and the store
\* holds no entry for the address.
C11_ReservedLookupLeavesCacheAlone ==
    \A r \in ReqIds :
        is_reserved_ip(rq[r].ip) =>
            /\ \A i \in DOMAIN rq[r].log :
                  rq[r].log[i][1] \notin {"cache.get", "cache.set"}
            /\ rq[r].ip \notin DOMAIN entries

\* C12: when the store holds a live entry for the key, the cache check
\* answers the request at once, with no provider call and no change to the
\* store; otherwise it goes on to the primary lookup.  A request that has
\* called a provider began with a cache miss.
C12_CacheHitCallsNoProvider ==
    [][\A r \in ReqIds :
         /\ (rq[r].pc = "cache" /\ rq'[r].pc # "cache") =>
               IF HoldsLive(rq[r].ip)
               THEN /\ rq'[r].pc = "idle"
                    /\ rq'[r].resp # None
                    /\ rq'[r].resp[1].status = 200
                    /\ rq'[r].resp[1].body.info.ip = rq[r].ip
                    /\ rq'[r].calls = <<>>
                    /\ entries' = entries
                    /\ current_size_bytes' = current_size_bytes
                    /\ files' = files
               ELSE rq'[r].pc = "primary" /\ rq'[r].resp = None
         /\ rq'[r].calls # <<>> => rq'[r].log[1] = <<"cache.get", "miss">>
      ]_vars

\* a request answered from an entry cached at an earlier instant
C12_Witness ==
    \E r \in ReqIds :
        /\ rq[r].pc = "idle"
        /\ rq[r].log = <<<<"cache.get", "hit">>, <<"respond">>>>
        /\ rq[r].ip \in DOMAIN entries
        /\ entries[rq[r].ip].expires_at < rq[r].ts + EXPIRY_DURATION

\* C13: a response carries a cache timestamp exactly when it was served
\* from the cache, and then the timestamp is the time of the lookup; a
\* freshly computed response carries none.
C13_TimestampIffFromCache ==
    \A r \in ReqIds :
        (rq[r].resp # None /\ rq[r].resp[1].status = 200) =>
            IF HasEvent(r, <<"cache.get", "hit">>)
            THEN rq[r].resp[1].body.cached = Some(rq[r].ts)
            ELSE /\ rq[r].resp[1].body.cached = None
                 /\ HasEvent(r, <<"cache.set">>)

\* a hit answered at a later instant than the start
C13_Witness ==
    \E r \in ReqIds :
        /\ rq[r].resp # None
        /\ rq[r].resp[1].status = 200
        /\ rq[r].resp[1].body.cached # None
        /\ rq[r].resp[1].body.cached[1] > 0

\* C14: a cache hit reports the time at which the record was cached, so
\* that two hits on the same entry report the same timestamp.
C14_HitReportsTimeOfCaching ==
    [][\A r \in ReqIds :
         (rq[r].pc = "cache" /\ rq'[r].pc = "idle") =>
            rq'[r].resp[1].body.cached = Some(hist[rq[r].ip].at)
      ]_vars

\* C15: when the primary lookup fails (the input is no address and no
\* prefix) the request is answered 400 with the error of the lookup, no
\* provider has been called and the store holds nothing for the key; and
\* every such input fails.
C15_PrimaryFailureAbortsRequest ==
    \A r \in ReqIds :
        /\ HasEvent(r, <<"primary", "err">>) =>
              /\ rq[r].pc = "idle"
              /\ rq[r].resp =
                    Some([status |-> 400,
                          body |-> [status |-> "error",
                                    message |-> IF Len(rq[r].ip) = 5
                                                THEN "invalid cidr"
                                                ELSE "invalid ip"]])
              /\ rq[r].calls = <<>>
              /\ \A i \in DOMAIN rq[r].log :
                    rq[r].log[i][1] \notin {"start", "cache.set"}
              /\ rq[r].ip \notin DOMAIN entries
        /\ (rq[r].ip # <<>> /\ rq[r].pc \notin {"cache", "primary"}
            /\ ~HasEvent(r, <<"cache.get", "hit">>)
            /\ ~ParsesAsIp(rq[r].ip) /\ ~ParsesAsNet(rq[r].ip)) =>
              HasEvent(r, <<"primary", "err">>)

C15_Witness ==
    \E r \in ReqIds :
        /\ rq[r].ip = <<256, 0, 0, 1>>
        /\ rq[r].resp # None
        /\ rq[r].resp[1].status = 400

C17_FanoutsWaitForAll ==
    \A r \in ReqIds :
        LET log == rq[r].log
        IN /\ \A j \in DOMAIN log :
                 IsAfterEnrichment(log[j]) =>
                    \A p \in Enrichers :
                       /\ \E i \in 1..(j - 1) : log[i] = <<"start", p>>
                       /\ \E k \in 1..(j - 1) : IsDoneOf(log[k], p)
           /\ rq[r].pc \in {"rpki", "store", "respond"} =>
                 \A p \in Enrichers : \E k \in DOMAIN log : IsDoneOf(log[k], p)
           /\ \A j \in DOMAIN log :
                 log[j] = <<"cache.set">> =>
                    \A i \in 1..(j - 1) :
                       IsRpkiStart(log[i]) =>
                          \E k \in (i + 1)..(j - 1) :
                             /\ IsRpkiDone(log[k])
                             /\ SubSeq(log[k], 3, 4) = SubSeq(log[i], 3, 4)
           /\ rq[r].pc \in {"store", "respond"} =>
                 \A i \in DOMAIN log :
                    IsRpkiStart(log[i]) =>
                       \E k \in DOMAIN log :
                          /\ IsRpkiDone(log[k])
                          /\ SubSeq(log[k], 3, 4) = SubSeq(log[i], 3, 4)

\* WHOIS failed and the BGP-topology lookup failed, the BGP-prefix lookup
\* still returned its answer; then one RPKI query failed and the other was
\* still awaited
C17_Witness ==
    \E r \in ReqIds :
        /\ rq[r].pc = "store"
        /\ HasEvent(r, <<"err", "whois">>)
        /\ HasEvent(r, <<"err", "bgp_tools">>)
        /\ HasEvent(r, <<"ok", "bgp_api">>)
        /\ HasEvent(r, <<"err", "rpki", "p/24", "AS64500">>)
        /\ HasEvent(r, <<"ok", "rpki", "p/24", "AS64502">>)

\* the (prefix, asn) pairs of the RPKI queries the request has sent, in the
\* order they were sent
RpkiSent(r) ==
    LET starts == SelectSeq(rq[r].log, IsRpkiStart)
    IN [n \in 1..Len(starts) |-> SubSeq(starts[n], 3, 4)]

\* the (prefix, asn) pairs of the RPKI queries that succeeded
RpkiSucceeded(r) ==
    {SubSeq(rq[r].log[i], 3, 4) :
        i \in {j \in DOMAIN rq[r].log :
                 IsRpkiDone(rq[r].log[j]) /\ rq[r].log[j][1] = "ok"}}

\* C18: RPKI queries are sent only when the BGP-prefix provider succeeded
\* and its answer has a metadata entry with origin ASNs; then one query
\* (prefix, asn) is sent for each origin ASN of the first such entry and
\* none for the ASNs of later entries; in every other case none is sent and
\* the RPKI list of the record is empty.
C18_RpkiQueriesForFirstOriginAsns ==
    \A r \in ReqIds :
        LET b == rq[r].bgp_api
            with == IF b = None THEN {}
                    ELSE {i \in DOMAIN b[1].meta :
                             b[1].meta[i].origin_asns # None}
            first == CHOOSE i \in with : \A j \in with : i <= j
            after == rq[r].pc \in {"rpki", "store", "respond"}
                     \/ HasEvent(r, <<"cache.set">>)
        IN IF after /\ with # {}
           THEN RpkiSent(r) =
                   [n \in 1..Len(b[1].meta[first].origin_asns[1]) |->
                       <<b[1].prefix, b[1].meta[first].origin_asns[1][n]>>]
           ELSE /\ RpkiSent(r) = <<>>
                /\ rq[r].info # <<>> => rq[r].info.rpki_info_list = <<>>

\* the answer names origin ASNs in two entries; the queries are those of
\* the first
C18_Witness ==
    \E r \in ReqIds :
        /\ rq[r].pc = "respond"
        /\ rq[r].bgp_api # None
        /\ Len(rq[r].bgp_api[1].meta) = 3
        /\ RpkiSent(r) = <<<<"p/24", "AS64500">>, <<"p/24", "AS64502">>>>

\* C19: the RPKI list of the record holds exactly the results of the
\* queries that succeeded, one element for each; a failed query adds none,
\* and the request is answered 200 even when every query failed.
C19_RpkiListIsTheSuccesses ==
    \A r \in ReqIds :
        (rq[r].pc \in {"store", "respond"} \/ HasEvent(r, <<"cache.set">>)) =>
            LET list == rq[r].info.rpki_info_list
            IN /\ Len(list) = Cardinality(RpkiSucceeded(r))
               /\ {<<list[n].prefix, list[n].asn>> : n \in DOMAIN list}
                     = RpkiSucceeded(r)
               /\ rq[r].resp # None =>
                     /\ rq[r].resp[1].status = 200
                     /\ rq[r].resp[1].body.rpki_info_list = list

\* the first query failed, the second succeeded and is the only element
C19_Witness ==
    \E r \in ReqIds :
        /\ HasEvent(r, <<"err", "rpki", "p/24", "AS64500">>)
        /\ HasEvent(r, <<"ok", "rpki", "p/24", "AS64502">>)
        /\ rq[r].resp # None
        /\ rq[r].resp[1].status = 200
        /\ Len(rq[r].resp[1].body.rpki_info_list) = 1
        /\ rq[r].resp[1].body.rpki_info_list[1].asn = "AS64502"

\* C20: in a request that missed the cache the stages come in order: the
\* primary lookup has returned before any enrichment lookup starts, every
\* enrichment lookup has returned before any RPKI query starts, every RPKI
\* query has returned before the cache write, and the record written is
\* the merged record, results of the RPKI queries included.
C20_StagesInOrder ==
    \A r \in ReqIds :
        LET log == rq[r].log
        IN /\ \A j \in DOMAIN log :
                 (log[j][1] = "start" \/ log[j] = <<"cache.set">>) =>
                    /\ log[1] = <<"cache.get", "miss">>
                    /\ log[2] = <<"primary", "ok">>
                    /\ j > 2
           /\ \A i, j \in DOMAIN log :
                 (IsRpkiStart(log[j]) /\ \E p \in Enrichers :
                     log[i] = <<"start", p>> \/ IsDoneOf(log[i], p)) => i < j
           /\ \A i, j \in DOMAIN log :
                 (log[j] = <<"cache.set">> /\ log[i][1] \in {"start", "ok", "err"})
                    => i < j
           /\ \A i, j \in DOMAIN log :
                 (log[j] = <<"cache.set">> /\ IsRpkiStart(log[i])) =>
                    \E k \in (i + 1)..(j - 1) :
                       /\ IsRpkiDone(log[k])
                       /\ SubSeq(log[k], 3, 4) = SubSeq(log[i], 3, 4)
           /\ HasEvent(r, <<"cache.set">>) =>
                 /\ rq[r].ip \in DOMAIN entries
                 /\ entries[rq[r].ip].value = rq[r].info
                 /\ (rq[r].info.bgp_api_info # None) =
                       HasEvent(r, <<"ok", "bgp_api">>)
                 /\ Len(rq[r].info.rpki_info_list)
                       = Cardinality(RpkiSucceeded(r))

\* a request that went through every stage
C20_Witness ==
    \E r \in ReqIds :
        /\ rq[r].pc = "idle"
        /\ HasEvent(r, <<"primary", "ok">>)
        /\ HasEvent(r, <<"ok", "whois">>)
        /\ HasEvent(r, <<"ok", "rpki", "p/24", "AS64500">>)
        /\ HasEvent(r, <<"ok", "rpki", "p/24", "AS64502">>)
        /\ HasEvent(r, <<"cache.set">>)
        /\ rq[r].log[Len(rq[r].log)] = <<"respond">>

(***************************************************************************)
(* Properties of the cache write of the handler                            *)
(***************************************************************************)
\* C21: when the cache write of a fresh lookup is rejected (the new total
\* would exceed the capacity) the store is left as it was, and the request
\* is answered 200 with the merged record all the same.
C21_CacheWriteFailureIgnored ==
    [][\A r \in ReqIds :
         /\ (rq[r].pc = "store" /\ rq'[r].pc = "respond") =>
               LET k == rq[r].ip
                   held == IF k \in DOMAIN entries
                           THEN entries[k].size_bytes ELSE 0
                   total == current_size_bytes - held
                            + estimate_size(k, rq[r].info)
               IN IF total > MAX_MEMORY_BYTES
                  THEN /\ entries' = entries
                       /\ current_size_bytes' = current_size_bytes
                       /\ rq'[r].set_result = Some("err")
                  ELSE /\ entries'[k].value = rq[r].info
                       /\ rq'[r].set_result = Some("ok")
         /\ (rq[r].pc = "respond" /\ rq'[r].pc = "idle") =>
               /\ rq'[r].resp =
                     Some([status |-> 200,
                           body |-> create_response_from_ip_info(rq[r].info,
                                                                 None)])
               /\ rq'[r].resp[1].body.whois_info = rq[r].whois
               /\ entries' = entries
      ]_vars

\* a request answered 200 whose cache write was rejected
C21_Witness ==
    \E r \in ReqIds :
        /\ rq[r].pc = "idle"
        /\ rq[r].set_result = Some("err")
        /\ rq[r].resp # None
        /\ rq[r].resp[1].status = 200
        /\ rq[r].ip \notin DOMAIN entries
        /\ current_size_bytes = MAX_MEMORY_BYTES - 1

\* C22: two requests for one address that both missed the cache each make
\* their own provider calls and are both answered 200; each cache write
\* replaces the entry of the key, so that after both the store holds one
\* entry for the key, that of the later write, and the size counter counts
\* the key once.
C22_ConcurrentMissesLastWriteWins ==
    [][/\ \A r \in Handlers :
            (rq[r].pc = "store" /\ rq'[r].pc = "respond") =>
               /\ DOMAIN entries' = {rq[r].ip}
               /\ entries'[rq[r].ip].value = rq[r].info
               /\ current_size_bytes' = entries'[rq[r].ip].size_bytes
               /\ current_size_bytes'
                     = estimate_size(rq[r].ip, rq[r].info)
       /\ (\A r \in Handlers : ~(rq[r].pc = "store" /\ rq'[r].pc = "respond"))
             => entries' = entries /\ current_size_bytes' = current_size_bytes
       /\ \A r \in Handlers :
            (rq'[r].pc = "idle" /\ rq'[r].resp # None
             /\ rq'[r].log[1] = <<"cache.get", "miss">>) =>
               /\ rq'[r].resp[1].status = 200
               /\ rq'[r].calls = <<"geo", "whois", "bgp_tools", "bgp_api">>
      ]_vars

\* both requests missed, r1 wrote a record with WHOIS data first, r2 wrote
\* one without it afterwards, and the store holds the record of r2
C22_Witness ==
    /\ \A r \in Handlers :
          /\ rq[r].pc = "idle"
          /\ rq[r].resp # None
          /\ rq[r].log[1] = <<"cache.get", "miss">>
          /\ rq[r].ip = <<8, 8, 8, 8>>
    /\ rq["r1"].info.whois_info # None
    /\ rq["r2"].info.whois_info = None
    /\ DOMAIN entries = {<<8, 8, 8, 8>>}
    /\ entries[<<8, 8, 8, 8>>].value = rq["r2"].info
    /\ current_size_bytes = entries[<<8, 8, 8, 8>>].size_bytes

(***************************************************************************)
(* Properties of the lock, of remove, of the sweep and of load             *)
(***************************************************************************)
NoReaderInside(l) == \A t \in Readers : l.rd[t] = "out"

\* C23: a writer is inside the lock only when no reader and no other
\* writer is: every set, remove, sweep and persist step is taken by the
\* writer that holds the lock, with no reader inside, the startup load runs
\* with nobody inside, and a read is done by a reader inside while no
\* writer is; several readers may be inside together.
C23_WritersExclusiveReadersShared ==
    [][/\ lk'.w # "none" => NoReaderInside(lk')
       /\ (ret' # ret /\ ret'.op \in {"set", "remove", "sweep"}) =>
             lk.w = ret'.op /\ NoReaderInside(lk)
       /\ (ppc' # ppc \/ files' # files) =>
             lk.w \in {"set", "persist"} /\ NoReaderInside(lk)
       /\ (entries' # entries \/ current_size_bytes' # current_size_bytes) =>
             \/ lk.w \in WriteOps /\ NoReaderInside(lk)
             \/ phase = "new" /\ lk = NoLock
       /\ (ret' # ret /\ ret'.op = "load") => lk = NoLock
       /\ (ret' # ret /\ ret'.op \in {"get", "contains", "stats"}) =>
             /\ lk.w = "none"
             /\ \E t \in Readers : lk.rd[t] = "in" /\ lk'.rd[t] = "done"
      ]_vars

\* two readers inside at once, one of which has read
C23_Witness ==
    /\ lk.rd["g1"] = "done"
    /\ lk.rd["g2"] = "in"
    /\ lk.w = "none"
    /\ ret.op = "get"
    /\ ret.res # None

\* C24: remove of a key that has an entry takes the entry out, expired or
\* not, returns its value and lowers the size counter by the entry's size;
\* remove of a key without an entry returns none and changes nothing; the
\* entries of the other keys stay as they are.
C24_RemoveIsUnconditional ==
    [][\A k \in Keys :
         (Returned("remove") /\ ret'.key = k) =>
            IF k \in DOMAIN entries
            THEN /\ ret'.res = Some(entries[k].value)
                 /\ DOMAIN entries' = DOMAIN entries \ {k}
                 /\ current_size_bytes'
                       = current_size_bytes - entries[k].size_bytes
                 /\ \A j \in DOMAIN entries' : entries'[j] = entries[j]
            ELSE /\ ret'.res = None
                 /\ entries' = entries
                 /\ current_size_bytes' = current_size_bytes
      ]_vars

\* a remove that returned a value at the instant the deadline of every
\* entry set so far is reached (nothing was set after time 0: a set at a
\* later instant would have restarted the persist interval)
C24_Witness ==
    /\ ret.op = "remove"
    /\ ret.res # None
    /\ now = EXPIRY_DURATION
    /\ last_persist = 0
    /\ restarts = 0

\* C25: a sweep removes the entries whose deadline is now or earlier and
\* no other, returns their number and lowers the size counter by the sum of
\* their sizes; the entries that stay keep value, deadline and size.
C25_SweepRemovesExactlyExpired ==
    [][Returned("sweep") =>
         LET gone == {k \in DOMAIN entries : entries[k].expires_at <= now}
         IN /\ DOMAIN entries' = DOMAIN entries \ gone
            /\ \A k \in DOMAIN entries' : entries'[k] = entries[k]
            /\ ret'.count = Cardinality(gone)
            /\ current_size_bytes'
                  = current_size_bytes - SumSizes([k \in gone |-> entries[k]])
      ]_vars

\* a sweep at the very instant of the deadline of the entries it removed
C25_Witness ==
    /\ ret.op = "sweep"
    /\ ret.count = 2
    /\ now = EXPIRY_DURATION
    /\ last_persist = 0
    /\ restarts = 0

\* C26: a load that read a snapshot leaves in memory the entries of the
\* snapshot whose deadline is after the time of the load, as they are in
\* the snapshot, and nothing else; the size counter is the sum of their
\* sizes.  What was in memory and is not in the snapshot is gone.
C26_LoadReplacesMemory ==
    [][(Returned("load") /\ ret'.res = "ok" /\ ret'.file) =>
         LET snap == files[file_path].entries
             live == {k \in DOMAIN snap : snap[k].expires_at > now}
         IN /\ DOMAIN entries' = live
            /\ \A k \in live : entries'[k] = snap[k]
            /\ current_size_bytes' = SumSizes([k \in live |-> snap[k]])
            /\ \A k \in DOMAIN entries \ DOMAIN snap : k \notin DOMAIN entries'
      ]_vars

\* a load has undone a set: the key was set, its deadline is ahead, the
\* snapshot does not have it and after the load memory does not either,
\* while the entry of the snapshot is there
C26_Witness ==
    /\ ret.op = "load"
    /\ ret.res = "ok"
    /\ ret.file
    /\ entries # EmptyMap
    /\ \E k \in Keys : hist[k].value # None /\ k \notin DOMAIN entries

\* C27: a load that finds no file returns Ok, and a load that cannot read
\* or deserialize the file returns an error; in both cases the entries and
\* the size counter are what they were.
C27_FailedLoadChangesNothing ==
    [][Returned("load") =>
         /\ files[file_path] = NoFile =>
               ret'.res = "ok" /\ ~ret'.file
         /\ (files[file_path] # NoFile /\ files[file_path].kind # "snapshot")
               => ret'.res \in {"io error", "corrupt"}
         /\ ret'.res # "ok" => ret'.file
         /\ (ret'.res # "ok" \/ ~ret'.file) =>
               /\ entries' = entries
               /\ current_size_bytes' = current_size_bytes
      ]_vars

\* the file did not deserialize and the entries in memory are still there
C27_Witness ==
    /\ ret.op = "load"
    /\ ret.res = "corrupt"
    /\ entries # EmptyMap
    /\ current_size_bytes > 0

(***************************************************************************)
(* Properties of the persist interval, of the two loops and of startup     *)
(***************************************************************************)
\* C28: a set that succeeds right after a persist that failed, at a time
\* when a full interval has passed since the interval that the failed
\* persist ran in was started, calls persist_to_disk; the failed persist
\* may have been called by the loop or by a set.
C28_FailedPersistKeepsInterval ==
    [][(/\ ret.op = "persist"
        /\ ret.res = "err"
        /\ now - ret.since >= PERSIST_INTERVAL
        /\ ret' # ret
        /\ ret'.op = "set"
        /\ ret'.res = "ok")
       => (ppc' = "begin" /\ caller' = "set")
      ]_vars

\* C29: with the lock granted fairly, the persist loop calls
\* persist_to_disk again and again, also after a call of it that failed,
\* and an entry whose deadline has passed does not stay in the map.
C29_LoopsKeepRunning ==
    /\ []<>(ppc = "begin" /\ caller = "loop")
    /\ (ret.op = "persist" /\ ret.by = "loop" /\ ret.res = "err")
          ~> (ppc = "begin" /\ caller = "loop")
    /\ \A k \in Keys :
          (k \in DOMAIN entries /\ entries[k].expires_at <= now)
             ~> ~(k \in DOMAIN entries /\ entries[k].expires_at <= now)

\* the persist loop's call has just failed while an entry whose deadline
\* has passed waits for the sweep
C29_Witness ==
    /\ ret.op = "persist"
    /\ ret.by = "loop"
    /\ ret.res = "err"
    /\ \E k \in DOMAIN entries : entries[k].expires_at <= now

\* C30: until start_background_tasks has loaded the snapshot, no operation
\* of the store but that load runs, persist_to_disk is not called and the
\* snapshot file is not written; the load runs only on a store that is not
\* in service yet and puts it in service, and a store in service stays in
\* service for the life of the process.
C30_LoadBeforeEverythingElse ==
    [][/\ phase = "new" =>
            /\ ret' # ret => ret' = NoRet \/ ret'.op = "load"
            /\ ppc' = "idle"
            /\ caller' = "none"
            /\ files'[file_path] = files[file_path]
            /\ entries' # entries => ret'.op = "load"
       /\ (ret' # ret /\ ret'.op = "load") =>
            phase = "new" /\ phase' = "running"
       /\ (phase = "running" /\ restarts' = restarts) => phase' = "running"
       /\ (phase = "new" /\ phase' = "running") => ret'.op = "load"
      ]_vars

\* a started-again process has read the snapshot of the process before it
\* and then the persist loop has replaced the snapshot
C30_Witness ==
    /\ restarts = 1
    /\ phase = "running"
    /\ ret.op = "persist"
    /\ ret.by = "loop"
    /\ ret.res = "ok"
    /\ entries # EmptyMap
    /\ files[file_path] = [kind |-> "snapshot", entries |-> entries]

(***************************************************************************)
(* Properties of startup, of the order of the provider calls and of an     *)
(* overwriting set                                                         *)
(***************************************************************************)
\* C31: when the load done by start_background_tasks has returned an
\* error, the startup has not completed as it does after a load that
\* succeeded: the store is not put in service.
C31_LoadFailureSurfaced ==
    (ret.op = "load" /\ ret.res # "ok") => phase # "running"

IsEnricherStart(e) == Len(e) = 2 /\ e[1] = "start" /\ e[2] \in Enrichers

IsEnricherDone(e) == \E p \in Enrichers : IsDoneOf(e, p)

\* C34: in every request each of the three provider lookups is started
\* before any of the three has completed.
C34_AllStartedBeforeAnyDone ==
    \A r \in ReqIds :
       \A i, j \in DOMAIN rq[r].log :
          (IsEnricherStart(rq[r].log[i]) /\ IsEnricherDone(rq[r].log[j]))
             => i < j

\* the results of the RPKI queries that succeeded, in the order in which
\* the queries completed
RpkiInCompletionOrder(r) ==
    LET done == SelectSeq(rq[r].log,
                          LAMBDA e : IsRpkiDone(e) /\ e[1] = "ok")
    IN [i \in 1..Len(done) |->
          [asn |-> done[i][4], prefix |-> done[i][3], validity |-> "valid"]]

\* C35: once the RPKI queries are joined, the record's list holds the
\* successful results in the order in which the queries completed.
C35_RpkiListInCompletionOrder ==
    \A r \in ReqIds :
       rq[r].pc \in {"store", "respond"} =>
          rq[r].info.rpki_info_list = RpkiInCompletionOrder(r)

\* C36: a set on a key that has an entry is accepted exactly when the size
\* counter less the old entry's size plus the new entry's size is within
\* the capacity; then the key has one entry, with the new value, the new
\* size and the deadline now + EXPIRY_DURATION, the other entries are as
\* they were and the size counter is that total; otherwise nothing changes.
C36_OverwriteCountsOldSizeOff ==
    [][\A k \in Keys :
         (/\ ret'.op = "set"
          /\ ret'.key = k
          /\ ret' # ret \/ entries' # entries
          /\ k \in DOMAIN entries) =>
            LET v == ret'.value
                total == current_size_bytes - entries[k].size_bytes
                         + estimate_size(k, v)
            IN IF total <= MAX_MEMORY_BYTES
               THEN /\ ret'.res = "ok"
                    /\ DOMAIN entries' = DOMAIN entries
                    /\ entries'[k] = Entry(v, now + EXPIRY_DURATION,
                                           estimate_size(k, v))
                    /\ \A j \in DOMAIN entries \ {k} :
                          entries'[j] = entries[j]
                    /\ current_size_bytes' = total
               ELSE /\ ret'.res = "err"
                    /\ entries' = entries
                    /\ current_size_bytes' = current_size_bytes
      ]_vars

\* a set has replaced an entry in a store so full that the value would
\* not have been accepted under a new key
C36_Witness ==
    /\ ret.op = "set"
    /\ ret.res = "ok"
    /\ ret.old > 0
    /\ current_size_bytes = entries[ret.key].size_bytes
    /\ \E j \in Keys \ {ret.key} :
          current_size_bytes + ret.old + estimate_size(j, ret.value)
             - entries[ret.key].size_bytes > MAX_MEMORY_BYTES

\* C32: for a request whose input is a prefix, once the providers have been
\* called, the record's range is the network and the broadcast address of
\* the prefix, and the databases and the three providers were asked about
\* the first address of the network.
C32_CidrLooksUpNetworkAddress ==
    \A r \in ReqIds :
       (ParsesAsNet(rq[r].ip) /\ rq[r].enrich_arg # None) =>
          /\ rq[r].info.ip_range
                = Some(<<network(rq[r].ip), broadcast(rq[r].ip)>>)
          /\ rq[r].geo_arg = Some(network(rq[r].ip))
          /\ rq[r].enrich_arg = Some(network(rq[r].ip))

\* the classes of reserved addresses: loopback, private, link-local,
\* documentation, multicast and unspecified, for an IPv4 address
\* (127.0.0.0/8; 10.0.0.0/8, 172.16.0.0/12, 192.168.0.0/16; 169.254.0.0/16;
\* 192.0.2.0/24, 198.51.100.0/24, 203.0.113.0/24; 224.0.0.0/4; 0.0.0.0)
InReservedClassV4(ip) ==
    \/ ip[1] = 127
    \/ ip[1] = 10 \/ (ip[1] = 172 /\ ip[2] \in 16..31)
                  \/ (ip[1] = 192 /\ ip[2] = 168)
    \/ ip[1] = 169 /\ ip[2] = 254
    \/ <<ip[1], ip[2], ip[3]>>
          \in {<<192, 0, 2>>, <<198, 51, 100>>, <<203, 0, 113>>}
    \/ ip[1] \in 224..239
    \/ ip = <<0, 0, 0, 0>>

\* and for an IPv6 address (::1; fc00::/7; fe80::/10; 2001:db8::/32;
\* ff00::/8; ::)
InReservedClassV6(ip) ==
    \/ ip = <<0, 0, 0, 0, 0, 0, 0, 1>>
    \/ ip[1] \in 64512..65023
    \/ ip[1] \in 65152..65215
    \/ ip[1] = 8193 /\ ip[2] = 3512
    \/ ip[1] \in 65280..65535
    \/ ip = <<0, 0, 0, 0, 0, 0, 0, 0>>

\* C33: the record that the primary lookup gives for an address is the
\* canned record exactly when the address is loopback, private, link-local,
\* documentation, multicast or unspecified.
C33_ReservedExactlyTheClasses ==
    \A r \in ReqIds :
       (ParsesAsIp(rq[r].ip) /\ HasEvent(r, <<"primary", "ok">>)) =>
          (rq[r].info.country = Some(RESERVED_MARKER)
             <=> IF Len(rq[r].ip) = 4 THEN InReservedClassV4(rq[r].ip)
                 ELSE InReservedClassV6(rq[r].ip))

(***************************************************************************)
(* Properties of the scheduler, of the refresh of the databases and of     *)
(* the locks of a request                                                  *)
(***************************************************************************)
\* a step that is an iteration of the scheduler's loop
IsIteration == sched' # sched /\ sched'.utc = sched.utc

\* C37: the loop runs the callback only when a day or more has passed
\* since last_run; last_run moves only when the callback has returned Ok,
\* to the time of that run, and the next iteration then comes a day later;
\* after a run that returned Err last_run stays and the sleep is
\* MIN_SLEEP; an iteration that finds the task not due sleeps until it is.
C37_AnchorMovesOnSuccessOnly ==
    [][IsIteration =>
         /\ sched'.out \in {"ok", "err"} <=> sched.utc - sched.last_run >= DAY
         /\ sched'.last_run # sched.last_run => sched'.out = "ok"
         /\ sched'.out = "ok" =>
               /\ sched'.last_run = sched.utc
               /\ sched'.wake = sched.utc + DAY
         /\ sched'.out = "err" =>
               /\ sched'.last_run = sched.last_run
               /\ sched'.wake = sched.utc + MIN_SLEEP
         /\ sched'.out = "skipped" =>
               /\ sched'.last_run = sched.last_run
               /\ sched'.wake = sched.last_run + DAY
      ]_vars

\* the callback has failed a day and a second after the schedule was made,
\* not for the first time, and is to be tried again a second later
C37_Witness ==
    /\ sched.out = "err"
    /\ sched.last_run = 0
    /\ sched.utc = DAY + 1
    /\ sched.wake = DAY + 2
    /\ sched.ticks = 2

\* a handler that is not inside a request: it has answered the last one,
\* or none has come yet
Answered(r) ==
    /\ rq[r].pc = "idle"
    /\ rq[r].resp # None \/ rq[r] = NoReq

\* C38: every request that has been received is answered: a handler is
\* never inside a request for ever, whatever the other handler, the two
\* loops of the store and the update tasks do.
C38_EveryRequestAnswered == \A r \in Handlers : []<>Answered(r)

\* a request waits for the read lock of the reader while an update task is
\* inside reloading, and the other request waits for the lock of the store
\* while the persist loop is inside persist_to_disk
C38_Witness ==
    /\ rq["r1"].pc = "primary"
    /\ reader.w # None
    /\ rq["r2"].pc = "cache"
    /\ ppc # "idle"

\* the positions of get_ip_info between PrimaryLookup and Respond
InLookup == {"enrich", "join", "rpki", "store", "respond"}

\* C39: a request that is between the primary lookup and its response
\* holds the read lock of the reader, no update task is inside the write
\* lock meanwhile, and the loaded databases change only inside the write
\* lock; a request answered from the cache does not take the lock.
C39_ReaderHeldAcrossLookup ==
    [][/\ \A r \in Handlers :
            /\ rq'[r].pc \in InLookup => r \in reader'.rd
            /\ (rq[r].pc = "cache" /\ rq'[r].pc = "idle") =>
                  /\ r \notin reader.rd /\ r \notin reader'.rd
                  /\ reader' = reader
       /\ reader'.rd # {} => reader'.w = None
       /\ reader'.loaded # reader.loaded =>
            /\ reader.w # None
            /\ \A r \in Handlers : rq[r].pc \notin InLookup
      ]_vars

\* an update task waits for the write lock while a request is in its
\* provider calls, and another request is answered from the cache
C39_Witness ==
    /\ \E t \in Tasks : reader.task[t] = "wait"
    /\ rq["r1"].pc = "join"
    /\ "r1" \in reader.rd
    /\ rq["r2"].pc = "idle"
    /\ HasEvent("r2", <<"cache.get", "hit">>)

\* C40: every run of the registered callback returns Ok and moves the
\* anchor, so that tasks are spawned a day or more apart; an update that
\* failed ends its task without taking the write lock, and leaves the
\* loaded databases as they are.
C40_FailedUpdateWaitsADay ==
    [][/\ sched'.out # "err"
       /\ (IsIteration /\ sched.utc - sched.last_run >= DAY) =>
            /\ sched'.last_run = sched.utc
            /\ \E t \in Tasks :
                  reader.task[t] = "none" /\ reader'.task[t] = "update"
       /\ \A t \in Tasks :
            /\ (reader.task[t] # "update" /\ reader'.task[t] = "update") =>
                  IsIteration /\ sched.utc - sched.last_run >= DAY
            /\ (reader.task[t] = "update" /\ reader'.task[t] = "none") =>
                  /\ reader'.loaded = reader.loaded
                  /\ reader'.w = reader.w
            /\ reader'.task[t] = "reload" => reader.task[t] \in {"wait", "reload"}
      ]_vars

\* an update has failed after replacing one file, the reader still has the
\* databases it loaded at startup, and the next run is a day away
C40_Witness ==
    /\ sched.out = "ok"
    /\ sched.last_run = sched.utc
    /\ sched.wake = sched.utc + DAY
    /\ \A t \in Tasks : reader.task[t] = "none"
    /\ reader.disk = <<2, 1, 1>>
    /\ reader.loaded = <<1, 1, 1>>
====
